---------------------------- MODULE Spec2Model ----------------------------
(***************************************************************************)
(* A model of metrictank's in-memory metric registry (AggMetrics and its   *)
(* reaper) and of the Cassandra-backed chunk store (CassandraStore: the    *)
(* sharded write queues with their retrying writers, the bounded read      *)
(* queue with its readers, insertChunk and Search/SearchTable).            *)
(*                                                                         *)
(* The module holds several specifications over one set of variables:      *)
(*   WriteSpec   the write path   (Add, processWriteQueue, insertChunk)    *)
(*   RegSpec     the registry     (GetOrCreate, Get, stats, GC)            *)
(*   ReadSpec    the read path    (Search, SearchTable, processReadQueue)  *)
(*   StoreSpec   insertChunk and one searcher over a growing store         *)
(* A specification leaves the variables of the other parts unchanged.      *)
(***************************************************************************)
EXTENDS Integers, Sequences, FiniteSets, TLC

(***************************************************************************)
(* Bounds of the model and configuration values.                           *)
(***************************************************************************)
\* config.WriteConcurrency: number of write shards (one writer each)
WriteConcurrency == 2
\* config.WriteQueueSize: capacity of each shard's channel
WriteQueueSize == 1
\* chunk write requests handed to Add in one behaviour (all keys together)
MaxChunks == 3
\* transient insert failures the storage injects in one behaviour
MaxFailures == 2

Month_sec == 60 * 60 * 24 * 28

FormatStandardGoTszWithSpan == 1

\* The static span table of the chunk package, code -> span (seconds).
ChunkSpans == (1 :> 60) @@ (2 :> 300) @@ (3 :> 600)

RevChunkSpans == [s \in {ChunkSpans[c] : c \in DOMAIN ChunkSpans} |->
                    CHOOSE c \in DOMAIN ChunkSpans : ChunkSpans[c] = s]

Min(a, b) == IF a < b THEN a ELSE b
Max(a, b) == IF a > b THEN a ELSE b

RECURSIVE SumBytes(_)
SumBytes(bs) == IF bs = <<>> THEN 0 ELSE Head(bs) + SumBytes(Tail(bs))

(***************************************************************************)
(* Metric keys: schema.AMKey, an org id and the bytes of the key.          *)
(***************************************************************************)
Keys == { [org |-> 1, key |-> <<1, 2>>],
          [org |-> 1, key |-> <<2, 1>>],
          [org |-> 2, key |-> <<1, 2>>] }

RECURSIVE BytesString(_)
BytesString(bs) ==
    IF bs = <<>> THEN "" ELSE ToString(Head(bs)) \o BytesString(Tail(bs))

\* AMKey.String(): "<org>.<key bytes>"
KeyString(k) == ToString(k.org) \o "." \o BytesString(k.key)

(***************************************************************************)
(* TTL -> table routing.                                                   *)
(***************************************************************************)
RECURSIVE CeilPow2(_)
\* smallest power of two >= n
CeilPow2(n) == IF n < 2 THEN 1 ELSE 2 * CeilPow2((n + 1) \div 2)

RECURSIVE FloorPow2(_)
\* largest power of two <= n, for n >= 1
FloorPow2(n) == IF n < 2 THEN 1 ELSE 2 * FloorPow2(n \div 2)

\* a GetTTLTable whose pre factor is a power of two for every ttl
PreFactorWindowPow2(ttl) == FloorPow2(ttl \div 3600)

\* ttlUnits is a float64 number of hours; Exp2(Floor(Log2(h))) converted to
\* uint32 is 0 for every h < 1 (Log2(0) = -Inf, Exp2(-Inf) = 0; for
\* 0 < h < 1 the result is a fraction, truncated to 0). For h >= 1 Log2 is
\* exact at the powers of two and more than an ulp below k + 1 for every
\* whole number of seconds below 2^(k+1) hours, so the floor is exact.
PreFactorWindow(ttl) == IF ttl < 3600 THEN 0 ELSE FloorPow2(ttl \div 3600)

WindowFactor == 20
\* Table_name_format `metric_%d`: the text before the number
Table_name_format == "metric_"

GetTTLTable(ttl, windowFactor, nameFormat) ==
    [Table      |-> nameFormat \o ToString(PreFactorWindow(ttl)),
     WindowSize |-> PreFactorWindow(ttl) \div windowFactor + 1]

\* the retention classes the store was constructed with
ConfiguredTTLs == {3600, 7200, 10000}
\* a TTL no table was set up for
UnknownTTL == 24 * 3600
TTLs == ConfiguredTTLs \cup {UnknownTTL}

\* GetTTLTables: the store's ttlTables map
ttlTables ==
    [ttl \in ConfiguredTTLs |->
        GetTTLTable(ttl, WindowFactor, Table_name_format)]

errTableNotFound == "errTableNotFound"

\* getTable: <<table, err>>
getTable(ttl) ==
    IF ttl \in DOMAIN ttlTables
    THEN [table |-> ttlTables[ttl].Table, err |-> "nil"]
    ELSE [table |-> "", err |-> errTableNotFound]

\* a row key that rounds the month number to the nearest month
RowKeyNearest(keyStr, t) ==
    keyStr \o "_" \o ToString((t + Month_sec \div 2) \div Month_sec)

\* row key "<key>_<month number>"
RowKey(keyStr, t) == keyStr \o "_" \o ToString(t \div Month_sec)

\* a frame with the format byte and the payload, and no span code
PrepareChunkDataNoSpan(span, data) ==
    <<FormatStandardGoTszWithSpan>> \o data

\* PrepareChunkData: format byte, span code, payload (span is in the table)
PrepareChunkData(span, data) ==
    <<FormatStandardGoTszWithSpan, RevChunkSpans[span]>> \o data


(***************************************************************************)
(* State.                                                                  *)
(***************************************************************************)
VARIABLES
    \* ---- write path
    added,          \* per key: how many chunks were handed to Add
    writeQueues,    \* per shard: the channel's buffered requests
    writers,        \* per shard: the writer's position and locals
    failBudget,     \* transient failures the storage may still inject
    insertAttempts, \* per request: calls of insertChunk
    insertOk,       \* per request: calls of insertChunk that returned nil
    syncCalls,      \* per request: calls of Metric.SyncChunkSaveState(T0)
    persistMsgs,    \* per request: persist messages sent
    chunkSaveOk,    \* counter store.cassandra.chunk_operations.save_ok
    chunkSaveFail,  \* counter store.cassandra.chunk_operations.save_fail
    \* ---- the Cassandra tables
    rows,           \* set of [table, key, ts, data]; (table, key, ts) is unique
    stored,         \* the chunks insertChunk stored: [key, table, t0, span]
    \* ---- the metric registry (AggMetrics)
    Metrics,        \* the map: key -> metric (0: no entry)
    created,        \* metrics allocated so far (the next one is created + 1)
    bornIn,         \* per metric: <<key, removals of the key when created>>
    removals,       \* per key: how often the reaper removed it
    lastWrite,      \* per metric: wall clock of the last append (0: none yet)
    closed,         \* per metric: the newest chunk was sealed by GC
    wlock,          \* holder of the registry's exclusive lock, or "none"
    rlocks,         \* holders of the registry's read lock
    regw,           \* per ingest goroutine: position and locals
    rd,             \* the reading goroutine (Get, stats): position and locals
    gc,             \* the reaper: position and locals
    clock,          \* wall clock, seconds
    gocCalls,       \* GetOrCreate calls started
    fatal,          \* the runtime aborted the process (concurrent map access)
    \* ---- read path
    readQueue,      \* the read channel's buffered requests
    readers,        \* per read worker: position and the request it holds
    srch,           \* per Search call: position, arguments, locals, result
    ctx,            \* per Search call: "live", or when its context was
                    \* canceled: "early" (request not yet dequeued) / "late"
    out,            \* per Search call: the result channel's buffer
    rq,             \* per Search call: "none", "queued", "dequeued", "answered"
    queries,        \* per Search call: queries run against Cassandra
    \* ---- the single-table reader (package main)
    legacy,         \* the searchCassandra call: position, arguments, locals
    \* ---- functions without state
    fcall,          \* the function last applied, its arguments and its result
    \* ---- construction of the store
    boot,           \* the NewCassandraStore call: position, attempt, result
    \* ---- one aggregated metric
    agg,            \* its chunks, its current chunk's T0, the writes it asked for
    \* ---- the write semaphore of the single-table layout (package main)
    sem,            \* cSession, the tokens in writeSem, the InsertChunk calls
    \* ---- the query goroutines of searchCassandra (package main)
    fan             \* results, wg, the goroutines, the collector's outcomes

writeVars == <<added, writeQueues, writers, failBudget, insertAttempts,
               insertOk, syncCalls, persistMsgs, chunkSaveOk, chunkSaveFail>>
storeVars == <<rows, stored>>
readVars == <<readQueue, readers, srch, ctx, out, rq, queries>>
legacyVars == <<legacy>>
pureVars == <<fcall>>
bootVars == <<boot>>
aggVars == <<agg>>
semVars == <<sem>>
fanVars == <<fan>>
regVars == <<Metrics, created, bornIn, removals, lastWrite, closed, wlock,
             rlocks, regw, rd, gc, clock, gocCalls, fatal>>

Shards == 0 .. WriteConcurrency - 1

\* the requests of a behaviour: the n-th chunk of key k
ReqIds == Keys \X (1 .. MaxChunks)

\* chunk span and TTL of the metrics that feed the write path
WriteSpan == 600
WriteTTL  == 3600

\* the n-th chunk write request of key k (T0 aligned to the span)
MkCwr(k, n) ==
    [Key |-> k, T0 |-> n * WriteSpan, TTL |-> WriteTTL, Span |-> WriteSpan,
     Series |-> <<n>>, n |-> n]

ReqOf(cwr) == <<cwr.Key, cwr.n>>

\* the writer holds no request
NoCwr == [Key |-> [org |-> 0, key |-> <<>>], T0 |-> 0, TTL |-> 0, Span |-> 0,
          Series |-> <<>>, n |-> 0]

writerIdle == [pc |-> "idle", cwr |-> NoCwr, buf |-> <<>>, attempts |-> 0,
               sleepTime |-> 0]

\* INSERT ... : (table, key, ts) is the primary key, a second insert of the
\* same cell replaces its data
Upsert(rs, table, rowKey, ts, data) ==
    {r \in rs : ~(r.table = table /\ r.key = rowKey /\ r.ts = ts)}
        \cup {[table |-> table, key |-> rowKey, ts |-> ts, data |-> data]}

\* the cells after insertChunk(key, t0, ttl, data) went through
InsertChunk(keyStr, t0, ttl, data) ==
    Upsert(rows, getTable(ttl).table, RowKey(keyStr, t0), t0, data)

\* the record of stored chunks after that insert (a chunk stored again at
\* the same key and t0 replaces the earlier one)
StoredAfter(keyStr, t0, ttl, span) ==
    {c \in stored : ~(c.key = keyStr /\ c.table = getTable(ttl).table
                                      /\ c.t0 = t0)}
        \cup {[key |-> keyStr, table |-> getTable(ttl).table, t0 |-> t0,
                span |-> span]}

\* passes of a writer's retry loop followed for one request
MaxAttempts == 3

(***************************************************************************)
(* Write path.                                                             *)
(***************************************************************************)
RECURSIVE SumAdded(_, _)
SumAdded(f, ks) ==
    IF ks = {} THEN 0
    ELSE LET k == CHOOSE x \in ks : TRUE IN f[k] + SumAdded(f, ks \ {k})

\* the shard Add selects for a request
AddWhichWrongShard(cwr) ==
    (cwr.Key.org + SumBytes(cwr.Key.key) + cwr.n) % WriteConcurrency

AddWhich(cwr) == (cwr.Key.org + SumBytes(cwr.Key.key)) % WriteConcurrency

\* an Add that gives up the request when the shard's channel is full
AddTTLDropping(k, ttl) ==
    /\ SumAdded(added, Keys) < MaxChunks
    /\ LET cwr   == [MkCwr(k, added[k] + 1) EXCEPT !.TTL = ttl]
           which == AddWhich(cwr)
       IN  writeQueues' =
              IF Len(writeQueues[which]) < WriteQueueSize
              THEN [writeQueues EXCEPT ![which] = Append(@, cwr)]
              ELSE writeQueues
    /\ added' = [added EXCEPT ![k] = @ + 1]
    /\ UNCHANGED <<writers, failBudget, insertAttempts, insertOk, syncCalls,
                   persistMsgs, chunkSaveOk, chunkSaveFail, rows, stored>>
    /\ UNCHANGED <<regVars, readVars, legacyVars, pureVars, bootVars, aggVars, semVars, fanVars>>

\* CassandraStore.Add of the next chunk of key k, its metric having the
\* given TTL: blocks while the shard's channel is full
AddTTL(k, ttl) ==
    /\ SumAdded(added, Keys) < MaxChunks
    /\ LET cwr   == [MkCwr(k, added[k] + 1) EXCEPT !.TTL = ttl]
           which == AddWhich(cwr)
       IN  /\ Len(writeQueues[which]) < WriteQueueSize
           /\ writeQueues' = [writeQueues EXCEPT ![which] = Append(@, cwr)]
    /\ added' = [added EXCEPT ![k] = @ + 1]
    /\ UNCHANGED <<writers, failBudget, insertAttempts, insertOk, syncCalls,
                   persistMsgs, chunkSaveOk, chunkSaveFail, rows, stored>>
    /\ UNCHANGED <<regVars, readVars, legacyVars, pureVars, bootVars, aggVars, semVars, fanVars>>

\* CassandraStore.Add for a metric of a configured retention class
Add(k) == AddTTL(k, WriteTTL)

\* a worker that takes a request only while no other worker holds one
WriteDequeueOneAtATime(q) ==
    /\ writers[q].pc = "idle"
    /\ \A other \in Shards : writers[other].pc = "idle"
    /\ writeQueues[q] # <<>>
    /\ LET cwr == Head(writeQueues[q])
       IN  writers' = [writers EXCEPT ![q] =
                [pc |-> "insert", cwr |-> cwr,
                 buf |-> PrepareChunkData(cwr.Span, cwr.Series),
                 attempts |-> 0, sleepTime |-> 0]]
    /\ writeQueues' = [writeQueues EXCEPT ![q] = Tail(@)]
    /\ UNCHANGED <<added, failBudget, insertAttempts, insertOk, syncCalls,
                   persistMsgs, chunkSaveOk, chunkSaveFail, rows, stored>>
    /\ UNCHANGED <<regVars, readVars, legacyVars, pureVars, bootVars, aggVars, semVars, fanVars>>

\* processWriteQueue, case cwr := <-queue: up to the retry loop
WriteDequeue(q) ==
    /\ writers[q].pc = "idle"
    /\ writeQueues[q] # <<>>
    /\ LET cwr == Head(writeQueues[q])
       IN  writers' = [writers EXCEPT ![q] =
                [pc |-> "insert", cwr |-> cwr,
                 buf |-> PrepareChunkData(cwr.Span, cwr.Series),
                 attempts |-> 0, sleepTime |-> 0]]
    /\ writeQueues' = [writeQueues EXCEPT ![q] = Tail(@)]
    /\ UNCHANGED <<added, failBudget, insertAttempts, insertOk, syncCalls,
                   persistMsgs, chunkSaveOk, chunkSaveFail, rows, stored>>
    /\ UNCHANGED <<regVars, readVars, legacyVars, pureVars, bootVars, aggVars, semVars, fanVars>>

\* the retry loop's err == nil branch
OnInsertOk(q) ==
    LET r == ReqOf(writers[q].cwr)
    IN  /\ insertOk' = [insertOk EXCEPT ![r] = @ + 1]
        /\ syncCalls' = [syncCalls EXCEPT ![r] = @ + 1]
        /\ persistMsgs' = [persistMsgs EXCEPT ![r] = @ + 1]
        /\ chunkSaveOk' = chunkSaveOk + 1
        /\ chunkSaveFail' = chunkSaveFail
        /\ writers' = [writers EXCEPT ![q] = writerIdle]

\* a writer that gives up on a chunk whose insert failed
OnInsertErrorDrop(q) ==
    /\ chunkSaveFail' = chunkSaveFail + 1
    /\ writers' = [writers EXCEPT ![q] = writerIdle]
    /\ UNCHANGED <<insertOk, syncCalls, persistMsgs, chunkSaveOk>>

\* a retry loop whose sleep grows without the cap of 2000 ms
OnInsertErrorNoCap(q) ==
    /\ chunkSaveFail' = chunkSaveFail + 1
    /\ writers' = [writers EXCEPT ![q].pc = "sleep",
                                  ![q].sleepTime = 100 * writers[q].attempts]
    /\ UNCHANGED <<insertOk, syncCalls, persistMsgs, chunkSaveOk>>

\* the retry loop's else branch, up to the sleep
OnInsertError(q) ==
    /\ chunkSaveFail' = chunkSaveFail + 1
    /\ writers' = [writers EXCEPT ![q].pc = "sleep",
                                  ![q].sleepTime = Min(100 * writers[q].attempts, 2000)]
    /\ UNCHANGED <<insertOk, syncCalls, persistMsgs, chunkSaveOk>>

\* one pass of the retry loop: insertChunk and the branch on its result
WriteInsert(q) ==
    /\ writers[q].pc = "insert"
    /\ LET cwr == writers[q].cwr
           t   == getTable(cwr.TTL)
           ks  == KeyString(cwr.Key)
           put == InsertChunk(ks, cwr.T0, cwr.TTL, writers[q].buf)
           sto == StoredAfter(ks, cwr.T0, cwr.TTL, cwr.Span)
       IN  /\ insertAttempts' = [insertAttempts EXCEPT ![ReqOf(cwr)] = @ + 1]
           /\ \/ /\ t.err # "nil"
                 /\ OnInsertError(q)
                 /\ UNCHANGED <<rows, stored, failBudget>>
              \/ /\ t.err = "nil"
                 /\ rows' = put
                 /\ stored' = sto
                 /\ OnInsertOk(q)
                 /\ UNCHANGED failBudget
              \/ /\ t.err = "nil"
                 /\ failBudget > 0
                 /\ failBudget' = failBudget - 1
                 \* a failed Exec may or may not have stored the cell
                 /\ \/ rows' = rows /\ stored' = stored
                    \/ rows' = put /\ stored' = sto
                 /\ OnInsertError(q)
    /\ UNCHANGED <<added, writeQueues>>
    /\ UNCHANGED <<regVars, readVars, legacyVars, pureVars, bootVars, aggVars, semVars, fanVars>>

\* the end of the sleep: attempts++ and the next pass
WriteWake(q) ==
    /\ writers[q].pc = "sleep"
    \* the passes for a request no table exists for are followed up to a bound
    /\ \/ getTable(writers[q].cwr.TTL).err = "nil"
       \/ writers[q].attempts < MaxAttempts
    /\ writers' = [writers EXCEPT ![q].pc = "insert",
                                  ![q].attempts = @ + 1]
    /\ UNCHANGED <<added, writeQueues, failBudget, insertAttempts, insertOk,
                   syncCalls, persistMsgs, chunkSaveOk, chunkSaveFail, rows, stored>>
    /\ UNCHANGED <<regVars, readVars, legacyVars, pureVars, bootVars, aggVars, semVars, fanVars>>


(***************************************************************************)
(* The metric registry and its reaper.                                     *)
(***************************************************************************)
\* GetOrCreate calls made in one behaviour
MaxGocCalls == 2
\* seconds the wall clock advances in one behaviour
MaxTicks == 2

\* the wall clock at the start (a unix time: far above the staleness
\* settings, so the thresholds of a tick do not pass below zero)
StartClock == 10

chunkSpan == 2
chunkMaxStale == 0
metricMaxStale == 1

RegKeys == {KeyString(k) : k \in {x \in Keys : x.org = 1}}
RegWriters == {"w1", "w2"}
MetricIds == 1 .. MaxGocCalls

\* all orders in which a set can be listed (iteration order of a Go map)
RECURSIVE Orderings(_)
Orderings(S) ==
    IF S = {} THEN {<<>>}
    ELSE UNION {{<<x>> \o t : t \in Orderings(S \ {x})} : x \in S}

regwIdle == [pc |-> "idle", key |-> "", m |-> 0, ok |-> FALSE,
             epoch0 |-> 0, clean |-> FALSE]
rdIdle == [pc |-> "idle", op |-> "", key |-> "", m |-> 0, ok |-> FALSE,
           epoch0 |-> 0, clean |-> FALSE]
\* snap, seen and gone record what the tick has done: the key list it copied,
\* its a.GC calls with their arguments and results, the keys it deleted
gcWait == [pc |-> "wait", now |-> 0, chunkMinTs |-> 0, metricMinTs |-> 0,
           keys |-> <<>>, key |-> "", a |-> 0,
           snap |-> <<>>, seen |-> <<>>, gone |-> {}]

InitReg ==
    /\ Metrics = [k \in RegKeys |-> 0]
    /\ created = 0
    /\ bornIn = [i \in MetricIds |-> <<"", 0>>]
    /\ removals = [k \in RegKeys |-> 0]
    /\ lastWrite = [i \in MetricIds |-> 0]
    /\ closed = [i \in MetricIds |-> FALSE]
    /\ wlock = "none"
    /\ rlocks = {}
    /\ regw = [w \in RegWriters |-> regwIdle]
    /\ rd = rdIdle
    /\ gc = gcWait
    /\ clock = StartClock
    /\ gocCalls = 0
    /\ fatal = FALSE

\* sync.RWMutex
CanLock == wlock = "none" /\ rlocks = {}
CanRLock == wlock = "none"

\* time passes
ClockTick ==
    /\ ~fatal
    /\ clock < StartClock + MaxTicks
    /\ clock' = clock + 1
    /\ UNCHANGED <<Metrics, created, bornIn, removals, lastWrite, closed,
                   wlock, rlocks, regw, rd, gc, gocCalls, fatal>>
    /\ UNCHANGED <<writeVars, storeVars, readVars, legacyVars, pureVars,
                   bootVars, aggVars, semVars, fanVars>>

\* a GetOrCreate that only takes the read lock
GocLockShared(w, k) ==
    /\ ~fatal
    /\ regw[w].pc = "idle"
    /\ gocCalls < MaxGocCalls
    /\ CanRLock
    /\ gocCalls' = gocCalls + 1
    /\ regw' = [regw EXCEPT ![w] = [regwIdle EXCEPT !.pc = "looked",
                    !.key = k, !.epoch0 = removals[k],
                    !.m = Metrics[k], !.ok = (Metrics[k] # 0)]]
    /\ UNCHANGED <<Metrics, created, bornIn, removals, lastWrite, closed,
                   wlock, rlocks, rd, gc, clock, fatal>>
    /\ UNCHANGED <<writeVars, storeVars, readVars, legacyVars, pureVars,
                   bootVars, aggVars, semVars, fanVars>>

\* GetOrCreate: ms.Lock(); m, ok := ms.Metrics[key]
GocLock(w, k) ==
    /\ ~fatal
    /\ regw[w].pc = "idle"
    /\ gocCalls < MaxGocCalls
    /\ CanLock
    /\ wlock' = w
    /\ gocCalls' = gocCalls + 1
    /\ regw' = [regw EXCEPT ![w] = [regwIdle EXCEPT !.pc = "looked",
                    !.key = k, !.epoch0 = removals[k],
                    !.m = Metrics[k], !.ok = (Metrics[k] # 0)]]
    /\ UNCHANGED <<Metrics, created, bornIn, removals, lastWrite, closed,
                   rlocks, rd, gc, clock, fatal>>
    /\ UNCHANGED <<writeVars, storeVars, readVars, legacyVars, pureVars,
                   bootVars, aggVars, semVars, fanVars>>

\* GetOrCreate: if !ok { m = NewAggMetric(...); ms.Metrics[key] = m };
\* ms.Unlock(); return m
GocStore(w) ==
    /\ ~fatal
    /\ regw[w].pc = "looked"
    /\ LET k == regw[w].key
           m == IF regw[w].ok THEN regw[w].m ELSE created + 1
       IN  /\ IF regw[w].ok
              THEN UNCHANGED <<Metrics, created, bornIn>>
              ELSE /\ created' = created + 1
                   /\ Metrics' = [Metrics EXCEPT ![k] = m]
                   /\ bornIn' = [bornIn EXCEPT ![m] = <<k, removals[k]>>]
           /\ regw' = [regw EXCEPT ![w].pc = "have", ![w].m = m,
                           ![w].clean = (removals[k] = regw[w].epoch0)]
    /\ wlock' = IF wlock = w THEN "none" ELSE wlock
    /\ UNCHANGED <<removals, lastWrite, closed, rlocks, rd, gc, clock,
                   gocCalls, fatal>>
    /\ UNCHANGED <<writeVars, storeVars, readVars, legacyVars, pureVars,
                   bootVars, aggVars, semVars, fanVars>>

\* the ingest goroutine appends a point to the metric it got: AggMetric.Add
\* records the wall clock as lastWrite and has an open chunk afterwards
RegAppend(w) ==
    /\ ~fatal
    /\ regw[w].pc = "have"
    /\ lastWrite' = [lastWrite EXCEPT ![regw[w].m] = clock]
    /\ closed' = [closed EXCEPT ![regw[w].m] = FALSE]
    /\ regw' = [regw EXCEPT ![w] = regwIdle]
    /\ UNCHANGED <<Metrics, created, bornIn, removals, wlock, rlocks, rd, gc,
                   clock, gocCalls, fatal>>
    /\ UNCHANGED <<writeVars, storeVars, readVars, legacyVars, pureVars,
                   bootVars, aggVars, semVars, fanVars>>

\* Get / stats: ms.RLock()
RdLock(op, k) ==
    /\ ~fatal
    /\ rd.pc \in {"idle", "done"}
    /\ CanRLock
    /\ rlocks' = rlocks \cup {"rd"}
    /\ rd' = [rdIdle EXCEPT !.pc = "in", !.op = op, !.key = k,
                            !.epoch0 = IF op = "get" THEN removals[k] ELSE 0]
    /\ UNCHANGED <<Metrics, created, bornIn, removals, lastWrite, closed,
                   wlock, regw, gc, clock, gocCalls, fatal>>
    /\ UNCHANGED <<writeVars, storeVars, readVars, legacyVars, pureVars,
                   bootVars, aggVars, semVars, fanVars>>

\* Get: m, ok := ms.Metrics[key]; stats: l := len(ms.Metrics); ms.RUnlock()
RdBody ==
    /\ ~fatal
    /\ rd.pc = "in"
    /\ rd' = IF rd.op = "get"
             THEN [rd EXCEPT !.pc = "done", !.m = Metrics[rd.key],
                             !.ok = (Metrics[rd.key] # 0),
                             !.clean = (removals[rd.key] = rd.epoch0)]
             ELSE [rd EXCEPT !.pc = "done"]
    /\ rlocks' = rlocks \ {"rd"}
    /\ UNCHANGED <<Metrics, created, bornIn, removals, lastWrite, closed,
                   wlock, regw, gc, clock, gocCalls, fatal>>
    /\ UNCHANGED <<writeVars, storeVars, readVars, legacyVars, pureVars,
                   bootVars, aggVars, semVars, fanVars>>

\* a tick whose thresholds are not aligned to the chunk span
GcTickUnaligned ==
    /\ ~fatal
    /\ gc.pc = "wait"
    /\ gc' = [gcWait EXCEPT !.pc = "snapshot", !.now = clock,
                 !.chunkMinTs = clock - chunkMaxStale,
                 !.metricMinTs = clock - metricMaxStale]
    /\ UNCHANGED <<Metrics, created, bornIn, removals, lastWrite, closed,
                   wlock, rlocks, regw, rd, clock, gocCalls, fatal>>
    /\ UNCHANGED <<writeVars, storeVars, readVars, legacyVars, pureVars,
                   bootVars, aggVars, semVars, fanVars>>

\* GC: a tick of the ticker; now, chunkMinTs, metricMinTs
GcTick ==
    /\ ~fatal
    /\ gc.pc = "wait"
    /\ gc' = [gcWait EXCEPT !.pc = "snapshot", !.now = clock,
                 !.chunkMinTs = clock - (clock % chunkSpan) - chunkMaxStale,
                 !.metricMinTs = clock - (clock % chunkSpan) - metricMaxStale]
    /\ UNCHANGED <<Metrics, created, bornIn, removals, lastWrite, closed,
                   wlock, rlocks, regw, rd, clock, gocCalls, fatal>>
    /\ UNCHANGED <<writeVars, storeVars, readVars, legacyVars, pureVars,
                   bootVars, aggVars, semVars, fanVars>>

\* GC: the key list, copied under the read lock
GcSnapshot ==
    /\ ~fatal
    /\ gc.pc = "snapshot"
    /\ CanRLock
    /\ \E ks \in Orderings({k \in RegKeys : Metrics[k] # 0}) :
          gc' = [gc EXCEPT !.pc = "loop", !.keys = ks, !.snap = ks]
    /\ UNCHANGED <<Metrics, created, bornIn, removals, lastWrite, closed,
                   wlock, rlocks, regw, rd, clock, gocCalls, fatal>>
    /\ UNCHANGED <<writeVars, storeVars, readVars, legacyVars, pureVars,
                   bootVars, aggVars, semVars, fanVars>>

\* GC: for _, key := range keys { RLock; a := ms.Metrics[key]; RUnlock },
\* or the end of the list
GcLookup ==
    /\ ~fatal
    /\ gc.pc = "loop"
    /\ IF gc.keys = <<>>
       THEN gc' = gcWait
       ELSE /\ CanRLock
            /\ gc' = [gc EXCEPT !.pc = "gc", !.key = Head(gc.keys),
                                !.a = Metrics[Head(gc.keys)],
                                !.keys = Tail(gc.keys)]
    /\ UNCHANGED <<Metrics, created, bornIn, removals, lastWrite, closed,
                   wlock, rlocks, regw, rd, clock, gocCalls, fatal>>
    /\ UNCHANGED <<writeVars, storeVars, readVars, legacyVars, pureVars,
                   bootVars, aggVars, semVars, fanVars>>

\* AggMetric.GC: whether the newest chunk gets sealed, and the result
AggMetricSeal(a, chunkMinTs) == lastWrite[a] # 0 /\ lastWrite[a] < chunkMinTs
AggMetricStale(a, metricMinTs) == lastWrite[a] # 0 /\ lastWrite[a] < metricMinTs

\* GC: stale := a.GC(chunkMinTs, metricMinTs)
GcMetric ==
    /\ ~fatal
    /\ gc.pc = "gc"
    /\ closed' = [closed EXCEPT ![gc.a] =
                     @ \/ AggMetricSeal(gc.a, gc.chunkMinTs)]
    /\ gc' = [gc EXCEPT !.pc = IF AggMetricStale(gc.a, gc.metricMinTs)
                               THEN "delete" ELSE "loop",
                        !.seen = Append(@,
                            [key |-> gc.key, chunkMinTs |-> gc.chunkMinTs,
                             metricMinTs |-> gc.metricMinTs,
                             stale |-> AggMetricStale(gc.a, gc.metricMinTs)])]
    /\ UNCHANGED <<Metrics, created, bornIn, removals, lastWrite, wlock,
                   rlocks, regw, rd, clock, gocCalls, fatal>>
    /\ UNCHANGED <<writeVars, storeVars, readVars, legacyVars, pureVars,
                   bootVars, aggVars, semVars, fanVars>>

\* another goroutine is inside a section that reads or writes the map
MapInUse == wlock # "none" \/ rlocks # {} \/ \E w \in RegWriters :
                                              regw[w].pc = "looked"

\* GC: delete(ms.Metrics, key), with no lock held. When it runs while another
\* goroutine uses the map, the runtime may abort the process.
GcDelete ==
    /\ ~fatal
    /\ gc.pc = "delete"
    /\ Metrics' = [Metrics EXCEPT ![gc.key] = 0]
    /\ removals' = [removals EXCEPT ![gc.key] = @ + 1]
    /\ gc' = [gc EXCEPT !.pc = "loop", !.gone = @ \cup {gc.key}]
    /\ fatal' \in (IF MapInUse THEN {FALSE, TRUE} ELSE {FALSE})
    /\ UNCHANGED <<created, bornIn, lastWrite, closed, wlock, rlocks, regw,
                   rd, clock, gocCalls>>
    /\ UNCHANGED <<writeVars, storeVars, readVars, legacyVars, pureVars,
                   bootVars, aggVars, semVars, fanVars>>

(***************************************************************************)
(* Read path.                                                              *)
(***************************************************************************)
\* config.ReadQueueSize: capacity of the read channel (at least 1)
ReadQueueSize == 1
\* config.ReadConcurrency: number of read workers
ReadConcurrency == 1
\* config.OmitReadTimeout, in seconds
OmitReadTimeout == 1

Searchers == {"s1", "s2", "s3"}
ReadWorkers == 1 .. ReadConcurrency

errInvalidRange  == "errInvalidRange"
errReadQueueFull == "errReadQueueFull"
errReadTooOld    == "errReadTooOld"
errCtxCanceled   == "errCtxCanceled"
errChunkTooSmall == "errChunkTooSmall"
errUnknownFormat == "errUnknownFormat"
errQuery         == "errQuery"

srchIdle == [pc |-> "idle", key |-> "", ttl |-> 0, start |-> 0, end |-> 0,
             timestamp |-> 0,
             table |-> "", rowKeys |-> <<>>, iter |-> <<>>, iterErr |-> "nil",
             itgens |-> <<>>, err |-> "nil", closed |-> FALSE]
readerIdle == [pc |-> "idle", s |-> ""]

\* results := make(chan readResult, 1)
ResultsCap == 1

InitRead ==
    /\ readQueue = <<>>
    /\ readers = [r \in ReadWorkers |-> readerIdle]
    /\ srch = [s \in Searchers |-> srchIdle]
    /\ ctx = [s \in Searchers |-> "live"]
    /\ out = [s \in Searchers |-> <<>>]
    /\ rq = [s \in Searchers |-> "none"]
    /\ queries = [s \in Searchers |-> 0]

\* SearchTable: start_month, end_month
StartMonth(start) == start - (start % Month_sec)
EndMonth(end) == (end - 1) - ((end - 1) % Month_sec)

RECURSIVE RowKeysFromExclusive(_, _, _)
\* a loop that stops before end_month
RowKeysFromExclusive(keyStr, month, end_month) ==
    IF month < end_month
    THEN <<RowKey(keyStr, month)>>
            \o RowKeysFromExclusive(keyStr, month + Month_sec, end_month)
    ELSE <<>>

RECURSIVE RowKeysFrom(_, _, _)
\* for month := start_month; month <= end_month; month += Month_sec
RowKeysFrom(keyStr, month, end_month) ==
    IF month <= end_month
    THEN <<RowKey(keyStr, month)>>
            \o RowKeysFrom(keyStr, month + Month_sec, end_month)
    ELSE <<>>

\* a row-key list that holds the last month only
RowKeysLastOnly(keyStr, start, end) ==
    RowKeysFrom(keyStr, EndMonth(end), EndMonth(end))

\* SearchTable: rowKeys
RowKeys(keyStr, start, end) ==
    RowKeysFrom(keyStr, StartMonth(start), EndMonth(end))

Range(seq) == {seq[i] : i \in DOMAIN seq}

\* SELECT ts, data FROM <table> WHERE key IN ? AND ts < ?
Select(table, rowKeys, end) ==
    {r \in rows : r.table = table /\ r.key \in Range(rowKeys) /\ r.ts < end}

\* a range check that lets start = end pass
PrecheckStartAfterEnd(ttl, start, end) ==
    IF getTable(ttl).err # "nil" THEN getTable(ttl).err
    ELSE IF start > end THEN errInvalidRange
    ELSE "nil"

\* Search, then SearchTable: the error returned before a request is built
Precheck(ttl, start, end) ==
    IF getTable(ttl).err # "nil" THEN getTable(ttl).err
    ELSE IF start >= end THEN errInvalidRange
    ELSE "nil"

\* a caller enters Search(ctx, key, ttl, start, end)
SearchCall(s, key, ttl, start, end) ==
    /\ srch[s].pc = "idle"
    /\ srch' = [srch EXCEPT ![s] = [srchIdle EXCEPT !.pc = "called",
                   !.key = key, !.ttl = ttl, !.start = start, !.end = end]]
    /\ UNCHANGED <<readQueue, readers, ctx, out, rq, queries>>
    /\ UNCHANGED <<writeVars, storeVars, regVars, legacyVars, pureVars,
                   bootVars, aggVars, semVars, fanVars>>

\* the caller's context is canceled (or its deadline passes) while the call
\* is in progress
Cancel(s) ==
    /\ srch[s].pc \notin {"idle", "ret"}
    /\ ctx[s] = "live"
    /\ ctx' = [ctx EXCEPT ![s] = IF rq[s] \in {"none", "queued"}
                                 THEN "early" ELSE "late"]
    /\ UNCHANGED <<readQueue, readers, srch, out, rq, queries>>
    /\ UNCHANGED <<writeVars, storeVars, regVars, legacyVars, pureVars,
                   bootVars, aggVars, semVars, fanVars>>

SearchReturn(s, itgens, err) ==
    srch' = [srch EXCEPT ![s].pc = "ret", ![s].itgens = itgens, ![s].err = err]

\* an offer that puts the request on the channel whatever its length
SearchOfferUnbounded(s) ==
    /\ srch[s].pc = "called"
    /\ LET a   == srch[s]
           pre == Precheck(a.ttl, a.start, a.end)
       IN  IF pre # "nil"
           THEN /\ SearchReturn(s, <<>>, pre)
                /\ UNCHANGED <<readQueue, rq>>
           ELSE \/ /\ ctx[s] # "live"
                   /\ SearchReturn(s, <<>>, "nil")
                   /\ UNCHANGED <<readQueue, rq>>
                \/ /\ readQueue' = Append(readQueue, s)
                   /\ rq' = [rq EXCEPT ![s] = "queued"]
                   /\ srch' = [srch EXCEPT ![s].pc = "wait",
                          ![s].timestamp = clock,
                          ![s].table = getTable(a.ttl).table,
                          ![s].rowKeys = RowKeys(a.key, a.start, a.end)]
    /\ UNCHANGED <<readers, ctx, out, queries>>
    /\ UNCHANGED <<writeVars, storeVars, regVars, legacyVars, pureVars,
                   bootVars, aggVars, semVars, fanVars>>

\* Search -> SearchTable up to the first select: getTable, the range check,
\* the request, and the offer to the read queue
SearchOffer(s) ==
    /\ srch[s].pc = "called"
    /\ LET a   == srch[s]
           pre == Precheck(a.ttl, a.start, a.end)
       IN  IF pre # "nil"
           THEN /\ SearchReturn(s, <<>>, pre)
                /\ UNCHANGED <<readQueue, rq>>
           ELSE \/ /\ ctx[s] # "live"              \* case <-ctx.Done()
                   /\ SearchReturn(s, <<>>, "nil")
                   /\ UNCHANGED <<readQueue, rq>>
                \/ /\ Len(readQueue) < ReadQueueSize   \* case c.readQueue <- &crr
                   /\ readQueue' = Append(readQueue, s)
                   /\ rq' = [rq EXCEPT ![s] = "queued"]
                   /\ srch' = [srch EXCEPT ![s].pc = "wait",
                          ![s].timestamp = clock,
                          ![s].table = getTable(a.ttl).table,
                          ![s].rowKeys = RowKeys(a.key, a.start, a.end)]
                \/ /\ ctx[s] = "live"              \* default
                   /\ Len(readQueue) >= ReadQueueSize
                   /\ SearchReturn(s, <<>>, errReadQueueFull)
                   /\ UNCHANGED <<readQueue, rq>>
    /\ UNCHANGED <<readers, ctx, out, queries>>
    /\ UNCHANGED <<writeVars, storeVars, regVars, legacyVars, pureVars,
                   bootVars, aggVars, semVars, fanVars>>

\* processReadQueue: for crr := range c.readQueue
ReadDequeue(r) ==
    /\ readers[r].pc = "idle"
    /\ readQueue # <<>>
    /\ readers' = [readers EXCEPT ![r] = [pc |-> "got", s |-> Head(readQueue)]]
    /\ readQueue' = Tail(readQueue)
    /\ rq' = [rq EXCEPT ![Head(readQueue)] = "dequeued"]
    /\ UNCHANGED <<srch, ctx, out, queries>>
    /\ UNCHANGED <<writeVars, storeVars, regVars, legacyVars, pureVars,
                   bootVars, aggVars, semVars, fanVars>>

\* crr.out <- res: the send waits while the buffer is full
Send(s, res) ==
    /\ Len(out[s]) < ResultsCap
    /\ out' = [out EXCEPT ![s] = Append(@, res)]

\* the worker after the send: a send on a closed channel panics
AfterSend(s) ==
    IF srch[s].closed THEN [pc |-> "panic", s |-> s] ELSE readerIdle

\* the query of a request runs: an iterator over the selected cells in the
\* order Cassandra yields them, which may end with an error
ReadExec(s) ==
    /\ queries' = [queries EXCEPT ![s] = @ + 1]
    /\ \E order \in Orderings(Select(srch[s].table, srch[s].rowKeys,
                                     srch[s].end)),
          e \in {"nil", errQuery} :
          Send(s, [i |-> order, ierr |-> e, err |-> "nil"])

\* time.Since(crr.timestamp) when the worker looks at request s
WaitDuration(s) == clock - srch[s].timestamp

\* crr.out <- readResult{err: e}
ReadFail(s, e) ==
    /\ Send(s, [i |-> <<>>, ierr |-> "nil", err |-> e])
    /\ UNCHANGED queries

\* a read worker that does not look at the request's context
ReadProcessNoCtxCheck(r) ==
    /\ readers[r].pc = "got"
    /\ LET s == readers[r].s
       IN  IF WaitDuration(s) > OmitReadTimeout
           THEN ReadFail(s, errReadTooOld)
           ELSE ReadExec(s)
    /\ readers' = [readers EXCEPT ![r] = AfterSend(readers[r].s)]
    /\ rq' = [rq EXCEPT ![readers[r].s] = "answered"]
    /\ UNCHANGED <<readQueue, srch, ctx>>
    /\ UNCHANGED <<writeVars, storeVars, regVars, legacyVars, pureVars,
                   bootVars, aggVars, semVars, fanVars>>

\* a read worker that does not look at the request's age
ReadProcessNoAgeCheck(r) ==
    /\ readers[r].pc = "got"
    /\ LET s == readers[r].s
       IN  IF ctx[s] # "live"
           THEN ReadFail(s, errCtxCanceled)
           ELSE ReadExec(s)
    /\ readers' = [readers EXCEPT ![r] = AfterSend(readers[r].s)]
    /\ rq' = [rq EXCEPT ![readers[r].s] = "answered"]
    /\ UNCHANGED <<readQueue, srch, ctx>>
    /\ UNCHANGED <<writeVars, storeVars, regVars, legacyVars, pureVars,
                   bootVars, aggVars, semVars, fanVars>>

\* a read worker that answers a canceled request and then goes on with it
ReadProcessNoContinue(r) ==
    /\ readers[r].pc = "got"
    /\ LET s == readers[r].s
       IN  IF ctx[s] # "live"
           THEN /\ queries' = [queries EXCEPT ![s] = @ + 1]
                /\ out' = [out EXCEPT ![s] =
                       @ \o <<[i |-> <<>>, ierr |-> "nil", err |-> errCtxCanceled],
                              [i |-> <<>>, ierr |-> "nil", err |-> "nil"]>>]
           ELSE IF WaitDuration(s) > OmitReadTimeout
           THEN ReadFail(s, errReadTooOld)
           ELSE ReadExec(s)
    /\ readers' = [readers EXCEPT ![r] = AfterSend(readers[r].s)]
    /\ rq' = [rq EXCEPT ![readers[r].s] = "answered"]
    /\ UNCHANGED <<readQueue, srch, ctx>>
    /\ UNCHANGED <<writeVars, storeVars, regVars, legacyVars, pureVars,
                   bootVars, aggVars, semVars, fanVars>>

\* processReadQueue: the body of the loop for one request
ReadProcess(r) ==
    /\ readers[r].pc = "got"
    /\ LET s == readers[r].s
       IN  IF ctx[s] # "live"                        \* case <-crr.ctx.Done()
           THEN ReadFail(s, errCtxCanceled)
           ELSE IF WaitDuration(s) > OmitReadTimeout
           THEN ReadFail(s, errReadTooOld)
           ELSE ReadExec(s)
    /\ readers' = [readers EXCEPT ![r] = AfterSend(readers[r].s)]
    /\ rq' = [rq EXCEPT ![readers[r].s] = "answered"]
    /\ UNCHANGED <<readQueue, srch, ctx>>
    /\ UNCHANGED <<writeVars, storeVars, regVars, legacyVars, pureVars,
                   bootVars, aggVars, semVars, fanVars>>

\* SearchTable: the second select
SearchWait(s) ==
    /\ srch[s].pc = "wait"
    /\ \/ /\ ctx[s] # "live"                        \* case <-ctx.Done()
          /\ SearchReturn(s, <<>>, "nil")
          /\ UNCHANGED out
       \/ /\ out[s] # <<>>                          \* case res = <-results
          /\ out' = [out EXCEPT ![s] = Tail(@)]
          /\ LET res == Head(out[s])
             IN  IF res.err = errCtxCanceled THEN SearchReturn(s, <<>>, "nil")
                 ELSE IF res.err # "nil" THEN SearchReturn(s, <<>>, res.err)
                 ELSE srch' = [srch EXCEPT ![s].pc = "scan", ![s].iter = res.i,
                                           ![s].iterErr = res.ierr,
                                           \* close(results)
                                           ![s].closed = TRUE]
    /\ UNCHANGED <<readQueue, readers, ctx, rq, queries>>
    /\ UNCHANGED <<writeVars, storeVars, regVars, legacyVars, pureVars,
                   bootVars, aggVars, semVars, fanVars>>

\* chunk.NewGen(b, ts): the iterator generator of a frame, or an error
NewGen(b, ts) ==
    IF b[1] # FormatStandardGoTszWithSpan
    THEN [err |-> errUnknownFormat, gen |-> [Ts |-> ts, B |-> <<>>]]
    ELSE [err |-> "nil", gen |-> [Ts |-> ts, B |-> b]]

RECURSIVE ScanRowsSkipCorrupt(_, _)
\* a scan loop that passes over a frame it cannot decode
ScanRowsSkipCorrupt(cells, itgens) ==
    IF cells = <<>> THEN [itgens |-> itgens, err |-> "nil"]
    ELSE LET c == Head(cells)
         IN  IF Len(c.data) < 2 \/ NewGen(c.data, c.ts).err # "nil"
             THEN ScanRowsSkipCorrupt(Tail(cells), itgens)
             ELSE ScanRowsSkipCorrupt(Tail(cells),
                      Append(itgens, NewGen(c.data, c.ts).gen))

RECURSIVE ScanRows(_, _)
\* for res.i.Scan(&ts, &b) { ... }: the generators so far and the error that
\* ended the loop
ScanRows(cells, itgens) ==
    IF cells = <<>> THEN [itgens |-> itgens, err |-> "nil"]
    ELSE LET c == Head(cells)
         IN  IF Len(c.data) < 2
             THEN [itgens |-> itgens, err |-> errChunkTooSmall]
             ELSE IF NewGen(c.data, c.ts).err # "nil"
             THEN [itgens |-> itgens, err |-> NewGen(c.data, c.ts).err]
             ELSE ScanRows(Tail(cells), Append(itgens, NewGen(c.data, c.ts).gen))

\* chunk.IterGensAsc.Less
IterGensAscLess(a, b) == a.Ts < b.Ts

RECURSIVE InsertSorted(_, _)
InsertSorted(x, sorted) ==
    IF sorted = <<>> THEN <<x>>
    ELSE IF IterGensAscLess(x, Head(sorted)) THEN <<x>> \o sorted
    ELSE <<Head(sorted)>> \o InsertSorted(x, Tail(sorted))

RECURSIVE SortAsc(_)
SortAsc(seq) ==
    IF seq = <<>> THEN <<>> ELSE InsertSorted(Head(seq), SortAsc(Tail(seq)))

\* generators returned in the order they were scanned
SortItgensSkipped(itgens) == itgens

\* sort.Sort(chunk.IterGensAsc(itgens))
SortItgens(itgens) == SortAsc(itgens)

\* SearchTable from the scan loop to the return
SearchScan(s) ==
    /\ srch[s].pc = "scan"
    /\ LET scan == ScanRows(srch[s].iter, <<>>)
       IN  IF scan.err # "nil"
           THEN SearchReturn(s, scan.itgens, scan.err)
           ELSE \/ /\ ctx[s] # "live"          \* the query was aborted
                   /\ SearchReturn(s, <<>>, "nil")
                \/ /\ srch[s].iterErr # "nil"
                   /\ SearchReturn(s, <<>>, srch[s].iterErr)
                \/ /\ srch[s].iterErr = "nil"
                   /\ SearchReturn(s, SortItgens(scan.itgens), "nil")
    /\ UNCHANGED <<readQueue, readers, ctx, out, rq, queries>>
    /\ UNCHANGED <<writeVars, storeVars, regVars, legacyVars, pureVars,
                   bootVars, aggVars, semVars, fanVars>>

(***************************************************************************)
(* The single-table layout: InsertChunk and searchCassandra.               *)
(***************************************************************************)
\* table_schema: raintank.metric
legacyTable == "metric"
\* the format byte of a frame of the single-table layout
FormatStandardGoTsz == 0

errStartBeforeEnd     == "start must be before end."
errSmallChunk         == "unpossibly small chunk in cassandra"
errUnrecognizedFormat == "unrecognized chunk format in cassandra"

legacyIdle == [pc |-> "idle", key |-> "", start |-> 0, end |-> 0,
               pending |-> {}, outcomes |-> <<>>, iters |-> <<>>,
               err |-> "nil"]

InitLegacy == legacy = legacyIdle

(***************************************************************************)
(* InsertChunk of the single-table layout, and its semaphore.              *)
(***************************************************************************)
\* the flag cassandra-write-concurrency: the capacity of writeSem
cassandraWriteConcurrency == 2

\* the goroutines that call InsertChunk
SemCallers == {"g1", "g2", "g3"}

semCallIdle == [pc |-> "idle", key |-> "", t0 |-> 0, span |-> 0, ret |-> "none"]

\* after InitCassandra: writeSem = make(chan bool, ...), cSession set
InitSem ==
    sem = [cSession |-> "open", writeSem |-> 0,
           call |-> [g \in SemCallers |-> semCallIdle]]

\* no searchCassandra call is in progress
fanIdle == [pc |-> "idle", key |-> "", start |-> 0, end |-> 0,
            queries |-> {}, issued |-> {}, sending |-> {}, sent |-> {},
            wg |-> 0,
            closer |-> "none", closed |-> FALSE, closes |-> 0,
            outcomes |-> <<>>, panic |-> FALSE]

InitFan == fan = fanIdle

InitPure == fcall = [fn |-> "none"]

(***************************************************************************)
(* NewCassandraStore.                                                      *)
(***************************************************************************)
\* the attempt at which the verification gives up
VerifyAttempts == 5

\* the tables of the retention classes the store is constructed with
TtlTableNames == {ttlTables[ttl].Table : ttl \in ConfiguredTTLs}

errCreateSession == "errCreateSession"
errSchemaQuery == "errSchemaQuery"
errKeyspaceMetadata == "errKeyspaceMetadata"
errHostSelectionPolicy == "errHostSelectionPolicy"

\* err is the function's variable err; ret is what the call returned: whether
\* the store is non-nil, and the error; workers counts the goroutines started
bootIdle ==
    [pc |-> "idle", CreateKeyspace |-> FALSE, attempt |-> 0, err |-> "nil",
     log |-> <<>>, ret |-> [store |-> FALSE, err |-> "nil"], workers |-> 0]

InitBoot == boot = bootIdle

\* return nil, err
BootFail(b, e) == [b EXCEPT !.pc = "ret", !.err = e,
                            !.ret = [store |-> FALSE, err |-> e]]

\* the call, up to the temporary session
NewCassandraStoreCall(createKeyspace, sessionOk) ==
    /\ boot.pc = "idle"
    /\ boot' = IF ~sessionOk
               THEN BootFail([boot EXCEPT !.CreateKeyspace = createKeyspace],
                             errCreateSession)
               ELSE [boot EXCEPT !.CreateKeyspace = createKeyspace,
                                 !.pc = IF createKeyspace THEN "create"
                                        ELSE "verify",
                                 !.attempt = IF createKeyspace THEN 0 ELSE 1]
    /\ UNCHANGED <<writeVars, storeVars, regVars, readVars, legacyVars,
                   pureVars, aggVars, semVars, fanVars>>

\* config.CreateKeyspace: the schema queries
BootCreate(queriesOk) ==
    /\ boot.pc = "create"
    /\ boot' = IF queriesOk THEN [boot EXCEPT !.pc = "connect"]
               ELSE BootFail(boot, errSchemaQuery)
    /\ UNCHANGED <<writeVars, storeVars, regVars, readVars, legacyVars,
                   pureVars, aggVars, semVars, fanVars>>

\* one pass of AttemptLoop: the cluster has the keyspace or not, and the
\* tables given; missing is the table the range over ttlTables finds missing
\* first
BootVerify(keyspaceFound, tables, missing) ==
    /\ boot.pc = "verify"
    /\ missing \in TtlTableNames \ tables
    /\ boot' =
         IF ~keyspaceFound
         THEN LET b == [boot EXCEPT !.err = errKeyspaceMetadata,
                                    !.log = Append(@, "keyspace")]
              IN  IF boot.attempt >= VerifyAttempts THEN BootFail(b, b.err)
                  ELSE [b EXCEPT !.attempt = @ + 1]
         ELSE LET b == [boot EXCEPT !.err = "nil", !.log = Append(@, missing)]
              IN  IF boot.attempt >= VerifyAttempts THEN BootFail(b, b.err)
                  ELSE [b EXCEPT !.attempt = @ + 1]
    /\ UNCHANGED <<writeVars, storeVars, regVars, readVars, legacyVars,
                   pureVars, aggVars, semVars, fanVars>>

\* a pass of AttemptLoop that finds the keyspace and every table: break
BootVerified ==
    /\ boot.pc = "verify"
    /\ boot' = [boot EXCEPT !.err = "nil", !.pc = "connect"]
    /\ UNCHANGED <<writeVars, storeVars, regVars, readVars, legacyVars,
                   pureVars, aggVars, semVars, fanVars>>

\* the host selection policy, the session, the store and its workers
BootConnect(policyOk, sessionOk) ==
    /\ boot.pc = "connect"
    /\ boot' = IF ~policyOk THEN BootFail(boot, errHostSelectionPolicy)
               ELSE IF ~sessionOk THEN BootFail(boot, errCreateSession)
               ELSE [boot EXCEPT !.pc = "ret", !.err = "nil",
                                 !.ret = [store |-> TRUE, err |-> "nil"],
                                 !.workers = WriteConcurrency + ReadConcurrency]
    /\ UNCHANGED <<writeVars, storeVars, regVars, readVars, legacyVars,
                   pureVars, aggVars, semVars, fanVars>>

(***************************************************************************)
(* One aggregated metric (AggMetric): the points it is given, the ring of  *)
(* its chunks, the write requests it hands to the store.                   *)
(***************************************************************************)
MaxAppends == 4

\* the metric's chunkSpan and numChunks
AggChunkSpan == 600
AggNumChunks == 2

\* the timestamps of the points
AppendTs == {0, 300, 600, 1000, 1199, 1200, 1600, 2400}

\* chunks: the ring, oldest first, the last one open; writes: the write
\* requests in the order they were enqueued; ts: the point last given;
\* calls: the Add calls so far; acks: the t0 of the SyncChunkSaveState calls,
\* in the order they arrived
InitAgg ==
    agg = [chunks |-> <<>>, currentChunkT0 |-> 0, writes |-> <<>>,
           ts |-> 0, calls |-> 0, lastSaveFinish |-> 0, acks |-> <<>>]

\* a ring whose new chunk starts at the point's own timestamp
AggAdvanceUnaligned(chunks, t0, ts) ==
    LET all == Append(chunks, [T0 |-> ts, points |-> <<ts>>, closed |-> FALSE])
    IN  IF Len(all) > AggNumChunks THEN Tail(all) ELSE all

\* the ring after a chunk was opened at t0 with the point ts
AggAdvance(chunks, t0, ts) ==
    LET all == Append(chunks, [T0 |-> t0, points |-> <<ts>>, closed |-> FALSE])
    IN  IF Len(all) > AggNumChunks THEN Tail(all) ELSE all

\* the ring with its last chunk sealed
AggSeal(chunks) == [chunks EXCEPT ![Len(chunks)].closed = TRUE]

\* the write request for the chunk c
AggCwr(c) == [T0 |-> c.T0, span |-> AggChunkSpan, points |-> c.points]

\* an Add that takes a point older than the current chunk for the start of
\* a new chunk
AggMetricAddAnyOrder(ts) ==
    /\ agg.calls < MaxAppends
    /\ LET newT0 == ts - (ts % AggChunkSpan)
           a     == [agg EXCEPT !.ts = ts, !.calls = @ + 1]
       IN  agg' =
             IF agg.chunks = <<>>
             THEN [a EXCEPT !.chunks = AggAdvance(<<>>, newT0, ts),
                            !.currentChunkT0 = newT0]
             ELSE IF newT0 = agg.currentChunkT0
             THEN [a EXCEPT !.chunks[Len(agg.chunks)].points = Append(@, ts)]
             ELSE [a EXCEPT
                     !.writes = Append(@, AggCwr(agg.chunks[Len(agg.chunks)])),
                     !.chunks = AggAdvance(AggSeal(agg.chunks), newT0, ts),
                     !.currentChunkT0 = newT0]
    /\ UNCHANGED <<writeVars, storeVars, regVars, readVars, legacyVars,
                   pureVars, bootVars, semVars, fanVars>>

\* AggMetric.Add(ts, val)
AggMetricAdd(ts) ==
    /\ agg.calls < MaxAppends
    /\ LET newT0 == ts - (ts % AggChunkSpan)
           a     == [agg EXCEPT !.ts = ts, !.calls = @ + 1]
       IN  agg' =
             IF agg.chunks = <<>>
             THEN [a EXCEPT !.chunks = AggAdvance(<<>>, newT0, ts),
                            !.currentChunkT0 = newT0]
             ELSE IF ts < agg.currentChunkT0
             THEN a
             ELSE IF newT0 = agg.currentChunkT0
             THEN [a EXCEPT !.chunks[Len(agg.chunks)].points = Append(@, ts)]
             ELSE [a EXCEPT
                     !.writes = Append(@, AggCwr(agg.chunks[Len(agg.chunks)])),
                     !.chunks = AggAdvance(AggSeal(agg.chunks), newT0, ts),
                     !.currentChunkT0 = newT0]
    /\ UNCHANGED <<writeVars, storeVars, regVars, readVars, legacyVars,
                   pureVars, bootVars, semVars, fanVars>>

\* InsertChunk(key, t0, data, ttl), Exec succeeds; the semaphore slot is
\* taken and given back within the call
LegacyInsertChunk(key, t0, data, span) ==
    /\ rows' = Upsert(rows, legacyTable, RowKey(key, t0), t0, data)
    /\ stored' = {c \in stored : ~(c.key = key /\ c.table = legacyTable
                                                /\ c.t0 = t0)}
                   \cup {[key |-> key, table |-> legacyTable, t0 |-> t0,
                          span |-> span]}
    /\ UNCHANGED <<writeVars, regVars, readVars, legacyVars, pureVars,
                   bootVars, aggVars, semVars, fanVars>>

RECURSIVE MonthsFrom(_, _)
\* for month := start_month; month <= end_month; month += month_sec
MonthsFrom(month, end_month) ==
    IF month <= end_month
    THEN {month} \cup MonthsFrom(month + Month_sec, end_month)
    ELSE {}

\* the query(month, sortKey, q, p...) calls of one searchCassandra call
LegacyQueries(start, end) ==
    LET start_month == StartMonth(start)
        end_month   == EndMonth(end)
    IN  {[month |-> start_month, sortKey |-> start_month, q |-> "last"]}
        \cup (IF start_month = end_month
              THEN {[month |-> start_month, sortKey |-> start_month + 1,
                     q |-> "between"]}
              ELSE {[month |-> m,
                     sortKey |-> IF m = start_month THEN m + 1 ELSE m,
                     q |-> IF m = start_month THEN "after"
                           ELSE IF m = end_month THEN "before" ELSE "all"] :
                        m \in MonthsFrom(start_month, end_month)})

RECURSIVE AscByTs(_)
\* ORDER BY ts ASC (ts is unique within a row)
AscByTs(cells) ==
    IF cells = {} THEN <<>>
    ELSE LET c == CHOOSE x \in cells : \A y \in cells : x.ts <= y.ts
         IN  <<c>> \o AscByTs(cells \ {c})

\* the rows the iterator of a query yields
LegacyResult(key, query, start, end) ==
    LET row == {r \in rows : r.table = legacyTable
                              /\ r.key = RowKey(key, query.month)}
        le  == {r \in row : r.ts <= start}
    IN  CASE query.q = "last" ->       \* ts <= ? Limit 1, clustering ts DESC
                IF le = {} THEN <<>>
                ELSE <<CHOOSE x \in le : \A y \in le : y.ts <= x.ts>>
          [] query.q = "between" ->
                AscByTs({r \in row : r.ts > start /\ r.ts < end})
          [] query.q = "after"  -> AscByTs({r \in row : r.ts > start})
          [] query.q = "before" -> AscByTs({r \in row : r.ts < end})
          [] query.q = "all"    -> AscByTs(row)

\* asc.Less
AscLess(a, b) == a.sortKey < b.sortKey

RECURSIVE InsertOutcome(_, _)
InsertOutcome(x, sorted) ==
    IF sorted = <<>> THEN <<x>>
    ELSE IF AscLess(x, Head(sorted)) THEN <<x>> \o sorted
    ELSE <<Head(sorted)>> \o InsertOutcome(x, Tail(sorted))

RECURSIVE SortByKey(_)
SortByKey(seq) ==
    IF seq = <<>> THEN <<>> ELSE InsertOutcome(Head(seq), SortByKey(Tail(seq)))

\* sort.Sort(asc(outcomes))
SortOutcomes(outcomes) == SortByKey(outcomes)

RECURSIVE ScanOutcomes(_, _, _)
\* for _, outcome := range outcomes { for outcome.i.Scan(&ts, &b) { ... } }
ScanOutcomes(outcomes, cells, iters) ==
    IF cells = <<>>
    THEN IF outcomes = <<>> THEN [iters |-> iters, err |-> "nil"]
         ELSE ScanOutcomes(Tail(outcomes), Head(outcomes).i, iters)
    ELSE LET c == Head(cells)
         IN  IF Len(c.data) < 2
             THEN [iters |-> iters, err |-> errSmallChunk]
             ELSE IF c.data[1] # FormatStandardGoTsz
             THEN [iters |-> iters, err |-> errUnrecognizedFormat]
             ELSE ScanOutcomes(outcomes, Tail(cells),
                               Append(iters, [t0 |-> c.ts]))

\* searchCassandra(key, start, end) up to the start of the query goroutines
LegacySearchCall(key, start, end) ==
    /\ legacy.pc = "idle"
    /\ legacy' = IF start > end
                 THEN [legacyIdle EXCEPT !.pc = "ret", !.key = key,
                          !.start = start, !.end = end,
                          !.err = errStartBeforeEnd]
                 ELSE [legacyIdle EXCEPT !.pc = "querying", !.key = key,
                          !.start = start, !.end = end,
                          !.pending = LegacyQueries(start, end)]
    /\ UNCHANGED <<writeVars, storeVars, regVars, readVars, pureVars,
                   bootVars, aggVars, semVars, fanVars>>

\* one query goroutine runs its query and hands the outcome to the collector
LegacyQueryDone ==
    /\ legacy.pc = "querying"
    /\ \E query \in legacy.pending :
          legacy' = [legacy EXCEPT
              !.pending = @ \ {query},
              !.outcomes = Append(@, [month |-> query.month,
                                      sortKey |-> query.sortKey,
                                      i |-> LegacyResult(legacy.key, query,
                                                legacy.start, legacy.end)])]
    /\ UNCHANGED <<writeVars, storeVars, regVars, readVars, pureVars,
                   bootVars, aggVars, semVars, fanVars>>

\* searchCassandra after the results channel was closed: sort, scan, return
LegacyCollect ==
    /\ legacy.pc = "querying"
    /\ legacy.pending = {}
    /\ LET scan == ScanOutcomes(SortOutcomes(legacy.outcomes), <<>>, <<>>)
       IN  legacy' = [legacy EXCEPT !.pc = "ret", !.iters = scan.iters,
                                    !.err = scan.err]
    /\ UNCHANGED <<writeVars, storeVars, regVars, readVars, pureVars,
                   bootVars, aggVars, semVars, fanVars>>


vars == <<writeVars, storeVars, regVars, readVars, legacyVars, pureVars,
          bootVars, aggVars, semVars, fanVars>>

InitWrite ==
    /\ added = [k \in Keys |-> 0]
    /\ writeQueues = [q \in Shards |-> <<>>]
    /\ writers = [q \in Shards |-> writerIdle]
    /\ failBudget = MaxFailures
    /\ insertAttempts = [r \in ReqIds |-> 0]
    /\ insertOk = [r \in ReqIds |-> 0]
    /\ syncCalls = [r \in ReqIds |-> 0]
    /\ persistMsgs = [r \in ReqIds |-> 0]
    /\ chunkSaveOk = 0
    /\ chunkSaveFail = 0

InitStore == rows = {} /\ stored = {}

Init ==
    /\ InitWrite /\ InitStore /\ InitReg /\ InitRead /\ InitLegacy /\ InitPure
    /\ InitBoot /\ InitAgg /\ InitSem /\ InitFan

NextWrite ==
    \/ \E k \in Keys : Add(k)
    \/ \E q \in Shards : WriteDequeue(q)
    \/ \E q \in Shards : WriteInsert(q)
    \/ \E q \in Shards : WriteWake(q)

\* the writers are goroutines that keep running and every sleep ends
WriteFairness ==
    \A q \in Shards : /\ WF_vars(WriteDequeue(q))
                      /\ WF_vars(WriteInsert(q))
                      /\ WF_vars(WriteWake(q))

WriteSpec == Init /\ [][NextWrite]_vars /\ WriteFairness

Accepted(r) == r[2] <= added[r[1]]

\* C1: every request accepted by Add is inserted successfully exactly once
\* and acknowledged by exactly one SyncChunkSaveState call, whatever (finite)
\* transient failures are injected: never more than one success or sync per
\* request, one sync per success, a dequeued request that has not succeeded
\* is still held by its writer, and again and again every request accepted so
\* far has reached one success and one sync (both are final: the counts of a
\* request never exceed one).
C1_WriterDurability ==
    /\ [](\A r \in ReqIds :
            /\ insertOk[r] <= 1
            /\ syncCalls[r] = insertOk[r]
            /\ (insertAttempts[r] > 0 /\ insertOk[r] = 0) =>
                  \E q \in Shards : /\ writers[q].pc # "idle"
                                    /\ ReqOf(writers[q].cwr) = r)
    /\ []<>(\A r \in ReqIds :
            Accepted(r) => (insertOk[r] = 1 /\ syncCalls[r] = 1))

\* a request that failed twice and was then inserted and acknowledged once
C1_Witness ==
    \E r \in ReqIds : /\ insertAttempts[r] = 3
                      /\ insertOk[r] = 1
                      /\ syncCalls[r] = 1

NextReg ==
    \/ ClockTick
    \/ \E w \in RegWriters, k \in RegKeys : GocLock(w, k)
    \/ \E w \in RegWriters : GocStore(w)
    \/ \E w \in RegWriters : RegAppend(w)
    \/ \E k \in RegKeys : RdLock("get", k)
    \/ RdLock("stats", "")
    \/ RdBody
    \/ GcTick
    \/ GcSnapshot
    \/ GcLookup
    \/ GcMetric
    \/ GcDelete

RegSpec == Init /\ [][NextReg]_vars

\* C3: the reaper removes no metric whose lastWrite is newer than the
\* metricMinTs of its tick, and an ingest goroutine that is about to append
\* holds the metric the registry has for its key.
C3_ReaperSafety ==
    /\ gc.pc = "delete" => lastWrite[gc.a] <= gc.metricMinTs
    /\ \A w \in RegWriters :
          regw[w].pc = "have" => Metrics[regw[w].key] = regw[w].m

\* C4: the reaper deletes from the map only with the exclusive lock held,
\* so that no Get, GetOrCreate or stats read is inside its locked section
\* when the delete runs.
C4_DeleteUnderLock ==
    gc.pc = "delete" => (wlock = "gc" /\ ~MapInUse)

\* C5: GetOrCreate calls for a key that no removal of the key overlaps
\* return one and the same metric, a Get of that key returns it too, and no
\* two metrics are created for a key without a removal of the key between.
C5_GetOrCreateAtomic ==
    /\ \A w1, w2 \in RegWriters :
          (/\ regw[w1].pc = "have" /\ regw[w2].pc = "have"
           /\ regw[w1].key = regw[w2].key
           /\ regw[w1].clean /\ regw[w2].clean
           /\ regw[w1].epoch0 = regw[w2].epoch0) => regw[w1].m = regw[w2].m
    /\ \A w \in RegWriters :
          (/\ regw[w].pc = "have" /\ rd.pc = "done" /\ rd.op = "get"
           /\ rd.key = regw[w].key /\ rd.clean /\ regw[w].clean
           /\ rd.epoch0 = regw[w].epoch0 /\ rd.ok) => rd.m = regw[w].m
    /\ \A i, j \in 1 .. created : bornIn[i] = bornIn[j] => i = j

\* two GetOrCreate calls for one key have returned the same metric, which a
\* Get of the key returned as well
C5_Witness ==
    \E w1, w2 \in RegWriters :
        /\ w1 # w2
        /\ regw[w1].pc = "have" /\ regw[w2].pc = "have"
        /\ regw[w1].key = regw[w2].key
        /\ regw[w1].clean /\ regw[w2].clean
        /\ regw[w1].epoch0 = regw[w2].epoch0
        /\ regw[w1].m = regw[w2].m
        /\ rd.pc = "done" /\ rd.op = "get" /\ rd.key = regw[w1].key
        /\ rd.ok /\ rd.m = regw[w1].m

(***************************************************************************)
(* The read path under load: three callers, a preloaded table.             *)
(***************************************************************************)
SearchKey == KeyString([org |-> 1, key |-> <<1, 2>>])

\* what the table holds when the callers arrive: two chunks of SearchKey
Preloaded ==
    {[table |-> getTable(3600).table, key |-> RowKey(SearchKey, t), ts |-> t,
      data |-> PrepareChunkData(600, <<7>>)] : t \in {600, 1200}}

ReadRanges == {<<600, 1800>>, <<1800, 1800>>, <<1800, 600>>}
ReadTTLs == {3600, UnknownTTL}

ReadInit ==
    /\ InitWrite /\ InitReg /\ InitRead /\ InitLegacy /\ InitPure
    /\ InitBoot /\ InitAgg /\ InitSem /\ InitFan
    /\ rows = Preloaded
    /\ stored = {[key |-> SearchKey, table |-> getTable(3600).table,
                  t0 |-> t, span |-> 600] : t \in {600, 1200}}

NextRead ==
    \/ \E s \in Searchers, ttl \in ReadTTLs, rg \in ReadRanges :
          SearchCall(s, SearchKey, ttl, rg[1], rg[2])
    \/ \E s \in Searchers : Cancel(s)
    \/ \E s \in Searchers : SearchOffer(s)
    \/ \E r \in ReadWorkers : ReadDequeue(r)
    \/ \E r \in ReadWorkers : ReadProcess(r)
    \/ \E s \in Searchers : SearchWait(s)
    \/ \E s \in Searchers : SearchScan(s)

ReadSpec == ReadInit /\ [][NextRead]_vars

\* C6: a Search that built its request and whose context was canceled
\* before a read worker dequeued the request has no query run for it, and
\* when it has returned it returned no generator and no error.
C6_ReadCancellation ==
    \A s \in Searchers :
        (ctx[s] = "early" /\ Precheck(srch[s].ttl, srch[s].start, srch[s].end) = "nil")
            => /\ queries[s] = 0
               /\ srch[s].pc = "ret" =>
                     (srch[s].itgens = <<>> /\ srch[s].err = "nil")

\* a Search canceled while its request sat in the queue has returned, and a
\* worker has dequeued and answered the request since
C6_Witness ==
    \E s \in Searchers : /\ ctx[s] = "early"
                         /\ srch[s].pc = "ret"
                         /\ rq[s] = "answered"
                         /\ out[s] # <<>>
                         /\ out[s][1].err = errCtxCanceled

\* C7: the read queue never holds more than ReadQueueSize requests; a
\* Search that finds it full while its context is live returns
\* ReadQueueFull in that step, and its request is not enqueued.
C7_ReadOverload ==
    /\ [](Len(readQueue) <= ReadQueueSize)
    /\ [][\A s \in Searchers :
            (/\ srch[s].pc = "called" /\ srch'[s].pc # "called"
             /\ Precheck(srch[s].ttl, srch[s].start, srch[s].end) = "nil"
             /\ ctx[s] = "live"
             /\ Len(readQueue) >= ReadQueueSize)
                => /\ srch'[s].pc = "ret"
                   /\ srch'[s].err = errReadQueueFull
                   /\ srch'[s].itgens = <<>>
                   /\ readQueue' = readQueue
                   /\ rq'[s] = "none"]_vars

\* one request is with the worker, the queue is full, and a third Search
\* with a live context got ReadQueueFull
C7_Witness ==
    \E s \in Searchers, r \in ReadWorkers :
        /\ srch[s].pc = "ret" /\ srch[s].err = errReadQueueFull
        /\ ctx[s] = "live" /\ rq[s] = "none"
        /\ Len(readQueue) = ReadQueueSize
        /\ readers[r].pc = "got"

\* C10 as stated: every Search with start >= end fails with InvalidRange,
\* whatever its ttl, and enqueues nothing.
C10_InvalidRangeFirst ==
    \A s \in Searchers :
        (srch[s].pc = "ret" /\ srch[s].start >= srch[s].end)
            => (srch[s].err = errInvalidRange /\ rq[s] = "none")

\* C10, amended: a Search with start >= end fails with InvalidRange when
\* its ttl is a configured one and with TableNotFound when it is not (the
\* table is resolved before the range is checked); in both cases no request
\* is enqueued and no query runs.
C10_InvalidRange ==
    \A s \in Searchers :
        (srch[s].pc # "idle" /\ srch[s].start >= srch[s].end)
            => /\ rq[s] = "none" /\ queries[s] = 0
               /\ srch[s].pc \in {"called", "ret"}
               /\ srch[s].pc = "ret" =>
                    /\ srch[s].itgens = <<>>
                    /\ srch[s].err = IF srch[s].ttl \in ConfiguredTTLs
                                     THEN errInvalidRange
                                     ELSE errTableNotFound

\* a Search with start = end and a configured ttl returned InvalidRange and
\* one with an unconfigured ttl returned TableNotFound
C10_Witness ==
    \E s1, s2 \in Searchers :
        /\ srch[s1].pc = "ret" /\ srch[s1].start = srch[s1].end
        /\ srch[s1].ttl \in ConfiguredTTLs /\ srch[s1].err = errInvalidRange
        /\ srch[s2].pc = "ret" /\ srch[s2].start >= srch[s2].end
        /\ srch[s2].ttl \notin ConfiguredTTLs
        /\ srch[s2].err = errTableNotFound

(***************************************************************************)
(* One caller over a table that fills up, in either layout.                *)
(***************************************************************************)
\* chunks stored in one behaviour
MaxInserts == 3

OtherKey == KeyString([org |-> 1, key |-> <<2, 1>>])

\* the chunks insertChunk is called with: key, ttl, t0, span (t0 aligned to
\* the span, the span a divisor of Month_sec)
StoreChunks ==
    {[key |-> SearchKey, ttl |-> 3600, t0 |-> c[1], span |-> c[2]] :
        c \in {<<0, 600>>, <<Month_sec - 600, 600>>, <<Month_sec - 600, 300>>,
               <<Month_sec - 300, 300>>, <<Month_sec, 600>>,
               <<2 * Month_sec, 300>>}}
    \cup {[key |-> SearchKey, ttl |-> 7200, t0 |-> Month_sec - 600, span |-> 600],
          [key |-> OtherKey, ttl |-> 3600, t0 |-> Month_sec - 600, span |-> 600]}

\* the chunks InsertChunk is called with
LegacyChunks ==
    {[key |-> SearchKey, t0 |-> c[1], span |-> c[2]] :
        c \in {<<Month_sec - 600, 600>>, <<Month_sec - 300, 300>>,
               <<Month_sec, 600>>, <<2 * Month_sec, 300>>}}
    \cup {[key |-> OtherKey, t0 |-> Month_sec - 300, span |-> 300]}

SearchPoints ==
    {1, Month_sec - 300, Month_sec - 1, Month_sec, Month_sec + 1,
     2 * Month_sec + 1}

\* a process is built from one of the two layouts: a behaviour stays with
\* the one it starts with
StoreOnly == legacy.pc = "idle" /\ \A r \in rows : r.table # legacyTable
LegacyOnly == srch["s1"].pc = "idle" /\ \A r \in rows : r.table = legacyTable

\* insertChunk(key, t0, ttl, data) with the frame of a chunk, Exec succeeds
StoreInsert(c) ==
    /\ StoreOnly
    /\ Cardinality(stored) < MaxInserts
    /\ getTable(c.ttl).err = "nil"
    /\ rows' = InsertChunk(c.key, c.t0, c.ttl, PrepareChunkData(c.span, <<7>>))
    /\ stored' = StoredAfter(c.key, c.t0, c.ttl, c.span)
    /\ UNCHANGED <<writeVars, regVars, readVars, legacyVars, pureVars,
                   bootVars, aggVars, semVars, fanVars>>

StoreSearch(start, end) ==
    /\ StoreOnly
    /\ start < end
    /\ SearchCall("s1", SearchKey, 3600, start, end)

LegacyInsert(c) ==
    /\ LegacyOnly
    /\ Cardinality(stored) < MaxInserts
    /\ LegacyInsertChunk(c.key, c.t0, <<FormatStandardGoTsz, 7>>, c.span)

LegacySearch(start, end) ==
    /\ LegacyOnly
    /\ LegacySearchCall(SearchKey, start, end)

NextStore ==
    \/ \E c \in StoreChunks : StoreInsert(c)
    \/ \E a \in SearchPoints, b \in SearchPoints : StoreSearch(a, b)
    \/ SearchOffer("s1")
    \/ \E r \in ReadWorkers : ReadDequeue(r)
    \/ \E r \in ReadWorkers : ReadProcess(r)
    \/ SearchWait("s1")
    \/ SearchScan("s1")
    \/ \E c \in LegacyChunks : LegacyInsert(c)
    \/ \E a \in SearchPoints, b \in SearchPoints : LegacySearch(a, b)
    \/ LegacyQueryDone
    \/ LegacyCollect

StoreSpec == Init /\ [][NextStore]_vars

\* [t0, t0 + span) and [start, end) share a point
Intersects(t0, span, start, end) == t0 < end /\ t0 + span > start

\* C8: the cells a Search request selects (row keys of start_month ..
\* end_month, ts < end, in the table of its ttl) include the cell of every
\* chunk of the searched key stored in that table whose interval
\* [t0, t0 + span) intersects [start, end).
C8_SearchSuperset ==
    \A s \in Searchers :
        srch[s].pc \in {"wait", "scan"} =>
            \A c \in stored :
                (/\ c.key = srch[s].key
                 /\ c.table = srch[s].table
                 /\ Intersects(c.t0, c.span, srch[s].start, srch[s].end))
                    => \E cell \in Select(srch[s].table, srch[s].rowKeys,
                                           srch[s].end) :
                          /\ cell.ts = c.t0
                          /\ cell.data = PrepareChunkData(c.span, <<7>>)

\* a request whose start lies inside a stored chunk of the month before
\* end's month: the chunk begins before start and is selected
C8_Witness ==
    \E s \in Searchers :
        /\ srch[s].pc = "wait"
        /\ StartMonth(srch[s].start) < EndMonth(srch[s].end)
        /\ \E c \in stored :
              /\ c.key = srch[s].key /\ c.table = srch[s].table
              /\ c.t0 < srch[s].start /\ c.t0 + c.span > srch[s].start
              /\ \E cell \in Select(srch[s].table, srch[s].rowKeys, srch[s].end) :
                    cell.ts = c.t0

\* C9: the generators a successful Search returns are strictly increasing
\* in t0, whatever order Cassandra yields the rows in; so are the iterators
\* a successful searchCassandra returns, whatever order its per-month
\* queries complete in.
C9_ResultOrder ==
    /\ \A s \in Searchers :
          (srch[s].pc = "ret" /\ srch[s].err = "nil") =>
              \A i, j \in 1 .. Len(srch[s].itgens) :
                  i < j => srch[s].itgens[i].Ts < srch[s].itgens[j].Ts
    /\ (legacy.pc = "ret" /\ legacy.err = "nil") =>
          \A i, j \in 1 .. Len(legacy.iters) :
              i < j => legacy.iters[i].t0 < legacy.iters[j].t0

\* a Search returned three generators of two months in ascending order
\* after scanning them in another order
C9_Witness ==
    \E s \in Searchers :
        /\ srch[s].pc = "ret" /\ srch[s].err = "nil"
        /\ Len(srch[s].itgens) = 3
        /\ srch[s].iter[1].ts > srch[s].iter[2].ts
        /\ srch[s].itgens[1].Ts < Month_sec
        /\ srch[s].itgens[3].Ts >= Month_sec

(***************************************************************************)
(* Requests of retention classes that have no table.                       *)
(***************************************************************************)
NextTtl ==
    \/ \E k \in Keys, ttl \in {WriteTTL, UnknownTTL} : AddTTL(k, ttl)
    \/ \E q \in Shards : WriteDequeue(q)
    \/ \E q \in Shards : WriteInsert(q)
    \/ \E q \in Shards : WriteWake(q)
    \/ \E ttl \in ReadTTLs : SearchCall("s1", SearchKey, ttl, 600, 1800)
    \/ SearchOffer("s1")
    \/ \E r \in ReadWorkers : ReadDequeue(r)
    \/ \E r \in ReadWorkers : ReadProcess(r)
    \/ SearchWait("s1")
    \/ SearchScan("s1")

TtlSpec == Init /\ [][NextTtl]_vars

\* C11: an operation that fails with TableNotFound is never retried: a
\* Search that returned TableNotFound enqueued no read and ran no query, and
\* a write worker that holds a chunk of a TTL without a table has made at
\* most one insert attempt for it.
C11_TableNotFoundNotRetried ==
    /\ \A s \in Searchers :
          (srch[s].pc = "ret" /\ srch[s].err = errTableNotFound)
              => (rq[s] = "none" /\ queries[s] = 0)
    /\ \A q \in Shards :
          (writers[q].pc # "idle"
              /\ getTable(writers[q].cwr.TTL).err = errTableNotFound)
              => insertAttempts[ReqOf(writers[q].cwr)] <= 1

(***************************************************************************)
(* Read requests that age in the queue.                                    *)
(***************************************************************************)
AgeSearchers == {"s1", "s2"}

NextAge ==
    \/ ClockTick
    \/ \E s \in AgeSearchers : SearchCall(s, SearchKey, 3600, 600, 1800)
    \/ \E s \in AgeSearchers : Cancel(s)
    \/ \E s \in AgeSearchers : SearchOffer(s)
    \/ \E r \in ReadWorkers : ReadDequeue(r)
    \/ \E r \in ReadWorkers : ReadProcess(r)
    \/ \E s \in AgeSearchers : SearchWait(s)
    \/ \E s \in AgeSearchers : SearchScan(s)

AgeSpec == ReadInit /\ [][NextAge]_vars

\* the result a worker puts on the out channel of s in this step
Answered(s) == out'[s][Len(out'[s])]

\* C12 as stated: a worker that finds a request older than OmitReadTimeout
\* answers ReadTooOld and runs no query; a worker that finds a request
\* within the timeout with a live context runs its query, once.
C12_ReadTooOld ==
    /\ [](\A s \in Searchers : queries[s] <= 1)
    /\ [][\A r \in ReadWorkers :
            (readers[r].pc = "got" /\ readers'[r].pc = "idle") =>
                LET s == readers[r].s
                IN  /\ WaitDuration(s) > OmitReadTimeout =>
                          /\ Answered(s).err = errReadTooOld
                          /\ queries' = queries
                    /\ (WaitDuration(s) <= OmitReadTimeout /\ ctx[s] = "live") =>
                          /\ Answered(s).err = "nil"
                          /\ queries'[s] = queries[s] + 1]_vars

\* C12, amended: a worker first looks at the context of the request it
\* dequeued and answers ContextCanceled when it is canceled, whatever the
\* age; with a live context it answers ReadTooOld when the wait exceeds
\* OmitReadTimeout and runs the query otherwise. Only the last case runs
\* a query, and no request has its query run twice.
C12_ReadTooOldLive ==
    /\ [](\A s \in Searchers : queries[s] <= 1)
    /\ [][\A r \in ReadWorkers :
            (readers[r].pc = "got" /\ readers'[r].pc = "idle") =>
                LET s == readers[r].s
                IN  /\ Len(out'[s]) = Len(out[s]) + 1
                    /\ ctx[s] # "live" =>
                          /\ Answered(s).err = errCtxCanceled
                          /\ queries' = queries
                    /\ (ctx[s] = "live" /\ WaitDuration(s) > OmitReadTimeout) =>
                          /\ Answered(s).err = errReadTooOld
                          /\ queries' = queries
                    /\ (ctx[s] = "live" /\ WaitDuration(s) <= OmitReadTimeout) =>
                          /\ Answered(s).err = "nil"
                          /\ queries'[s] = queries[s] + 1]_vars

\* a request with a live context waited two seconds, was answered
\* ReadTooOld and no query ran
C12_Witness ==
    \E s \in Searchers :
        /\ rq[s] = "answered" /\ ctx[s] = "live"
        /\ srch[s].pc = "wait"
        /\ out[s] # <<>> /\ out[s][1].err = errReadTooOld
        /\ WaitDuration(s) > OmitReadTimeout
        /\ queries[s] = 0

(***************************************************************************)
(* TTL routing.                                                            *)
(***************************************************************************)
\* the largest k whose bucket [2^k hours, 2^(k+1) hours) is routed
MaxK == 17

RECURSIVE Pow2(_)
Pow2(k) == IF k = 0 THEN 1 ELSE 2 * Pow2(k - 1)

\* TTLs at and around the ends of every bucket, and below one hour
RouteTTLs ==
    {0, 1, 1800, 3599, 3600, 604800}
    \cup UNION {LET lo == Pow2(k) * 3600
                    hi == 2 * lo
                IN  {lo, lo + 1, lo + 1799, lo + (hi - lo) \div 2,
                     hi - 3600, hi - 1} : k \in 0 .. MaxK}

RouteWindowFactors == {1, 3, 20}

\* GetTTLTable(ttl, windowFactor, Table_name_format)
CallGetTTLTable(ttl, windowFactor) ==
    /\ fcall' = [fn |-> "GetTTLTable", ttl |-> ttl,
                 windowFactor |-> windowFactor,
                 ret |-> GetTTLTable(ttl, windowFactor, Table_name_format)]
    /\ UNCHANGED <<writeVars, storeVars, regVars, readVars, legacyVars,
                   bootVars, aggVars, semVars, fanVars>>

NextRoute ==
    \E ttl \in RouteTTLs, wf \in RouteWindowFactors : CallGetTTLTable(ttl, wf)

RouteSpec == Init /\ [][NextRoute]_vars

\* C13: for every k and every ttl in [2^k * 3600, 2^(k+1) * 3600)
\* GetTTLTable returns the table named after 2^k and the window size
\* 2^k / windowFactor + 1.
C13_RoutingStability ==
    fcall.fn = "GetTTLTable" =>
        \A k \in 0 .. MaxK :
            (Pow2(k) * 3600 <= fcall.ttl /\ fcall.ttl < Pow2(k + 1) * 3600)
                => /\ fcall.ret.Table = Table_name_format \o ToString(Pow2(k))
                   /\ fcall.ret.WindowSize = Pow2(k) \div fcall.windowFactor + 1

\* ttl = 604800 (168 hours) with window factor 20 was routed to metric_128
\* with window size 7
C13_Witness ==
    /\ fcall.fn = "GetTTLTable"
    /\ fcall.ttl = 604800 /\ fcall.windowFactor = 20
    /\ fcall.ret = [Table |-> "metric_128", WindowSize |-> 7]

\* C14 as stated: for TTL 0 GetTTLTable returns the table named after 1 and
\* the window size 1 / windowFactor + 1.
C14_TTLZeroPreFactorOne ==
    (fcall.fn = "GetTTLTable" /\ fcall.ttl = 0)
        => /\ fcall.ret.Table = Table_name_format \o "1"
           /\ fcall.ret.WindowSize = 1 \div fcall.windowFactor + 1

\* C14, amended: for TTL 0, and for every TTL below one hour, the pre factor
\* is 0: GetTTLTable returns the table named after 0 and the window size
\* 0 / windowFactor + 1 = 1.
C14_TTLZero ==
    (fcall.fn = "GetTTLTable" /\ fcall.ttl < 3600)
        => /\ fcall.ret.Table = Table_name_format \o "0"
           /\ fcall.ret.WindowSize = 1

\* TTL 0 with window factor 1 was routed to metric_0 with window size 1
C14_Witness ==
    /\ fcall.fn = "GetTTLTable"
    /\ fcall.ttl = 0 /\ fcall.windowFactor = 1
    /\ fcall.ret = [Table |-> "metric_0", WindowSize |-> 1]

(***************************************************************************)
(* Row keys.                                                               *)
(***************************************************************************)
\* months the chunk and query times reach into
MaxMonths == 3

\* chunk spans that divide Month_sec
LocalitySpans == {1, 60, 300, 600, 3600, 86400, Month_sec \div 2, Month_sec}

\* chunk starts aligned to the span: the first chunks, and the chunks before,
\* at and after every month boundary
LocalityT0s(span) ==
    {t \in {span, 2 * span}
            \cup UNION {{m * Month_sec - span, m * Month_sec,
                         m * Month_sec + span} : m \in 1 .. MaxMonths} :
        t >= span}

\* query times at and next to the month boundaries
ListPoints ==
    {0, 1, 5222000, 7555000}
    \cup UNION {{m * Month_sec - 1, m * Month_sec, m * Month_sec + 1} :
                    m \in 1 .. MaxMonths}

RowKeyKeys == {SearchKey, "foo"}

\* insertChunk's row_key for the chunk at t0 and for the chunk before it
CallRowKey(key, span, t0) ==
    /\ fcall' = [fn |-> "row_key", key |-> key, span |-> span, t0 |-> t0,
                 ret |-> RowKey(key, t0), prev |-> RowKey(key, t0 - span)]
    /\ UNCHANGED <<writeVars, storeVars, regVars, readVars, legacyVars,
                   bootVars, aggVars, semVars, fanVars>>

\* SearchTable's rowKeys for key, start, end
CallRowKeys(key, start, end) ==
    /\ start < end
    /\ fcall' = [fn |-> "rowKeys", key |-> key, start |-> start, end |-> end,
                 ret |-> RowKeys(key, start, end)]
    /\ UNCHANGED <<writeVars, storeVars, regVars, readVars, legacyVars,
                   bootVars, aggVars, semVars, fanVars>>

NextRowKey ==
    \/ \E key \in RowKeyKeys, span \in LocalitySpans :
          \E t0 \in LocalityT0s(span) : CallRowKey(key, span, t0)
    \/ \E key \in RowKeyKeys, start \in ListPoints, end \in ListPoints :
          CallRowKeys(key, start, end)

RowKeySpec == Init /\ [][NextRowKey]_vars

\* C15: for a span dividing Month_sec and a chunk start t0 >= span aligned
\* to the span, the chunk at t0 and the chunk at t0 - span have the same row
\* key if and only if t0 is not a multiple of Month_sec.
C15_RowKeyLocality ==
    fcall.fn = "row_key" =>
        ((fcall.ret = fcall.prev) <=> (fcall.t0 % Month_sec # 0))

\* the last chunk of a month and the one before it share a row key, with
\* the span of 600 seconds
C15_Witness ==
    /\ fcall.fn = "row_key"
    /\ fcall.span = 600 /\ fcall.t0 = 2 * Month_sec - 600
    /\ fcall.ret = "1.12_1" /\ fcall.prev = "1.12_1"

MaxPaths == 2
MaxIntervals == 2
MaxItems == 2

SeqsUpTo(S, n) == UNION {[1 .. k -> S] : k \in 0 .. n}

\* the result of a read that failed
ReadErr == [err |-> TRUE, v |-> 0, bts |-> <<>>]

ReadOk(v, bts) == [err |-> FALSE, v |-> v, bts |-> bts]

Drop(bts, n) == SubSeq(bts, n + 1, Len(bts))

AppendMapHeader(o, sz) == o \o <<128 + sz>>

ReadMapHeaderBytes(bts) ==
    IF bts # <<>> /\ bts[1] \in 128 .. 143
    THEN ReadOk(bts[1] - 128, Tail(bts))
    ELSE ReadErr

AppendArrayHeader(o, sz) == o \o <<144 + sz>>

ReadArrayHeaderBytes(bts) ==
    IF bts # <<>> /\ bts[1] \in 144 .. 159
    THEN ReadOk(bts[1] - 144, Tail(bts))
    ELSE ReadErr

AppendString(o, s) == o \o <<160 + Len(s)>> \o s

ReadStringBytes(bts) ==
    IF bts # <<>> /\ bts[1] \in 160 .. 191 /\ Len(bts) >= 1 + (bts[1] - 160)
    THEN ReadOk(SubSeq(bts, 2, 1 + (bts[1] - 160)), Drop(bts, 1 + (bts[1] - 160)))
    ELSE ReadErr

ReadMapKeyZC(bts) == ReadStringBytes(bts)

AppendBool(o, b) == o \o <<IF b THEN 195 ELSE 194>>

ReadBoolBytes(bts) ==
    IF bts # <<>> /\ bts[1] \in {194, 195}
    THEN ReadOk(bts[1] = 195, Tail(bts))
    ELSE ReadErr

AppendInt64(o, i) ==
    IF i >= 0 /\ i <= 127 THEN o \o <<i>>
    ELSE IF i >= 0 THEN o \o <<209, i \div 256, i % 256>>
    ELSE IF i >= -32 THEN o \o <<256 + i>>
    ELSE IF i >= -128 THEN o \o <<208, 256 + i>>
    ELSE o \o <<209, (65536 + i) \div 256, (65536 + i) % 256>>

ReadInt64Bytes(bts) ==
    IF bts = <<>> THEN ReadErr
    ELSE IF bts[1] <= 127 THEN ReadOk(bts[1], Tail(bts))
    ELSE IF bts[1] >= 224 THEN ReadOk(bts[1] - 256, Tail(bts))
    ELSE IF bts[1] = 208 /\ Len(bts) >= 2
    THEN ReadOk(IF bts[2] >= 128 THEN bts[2] - 256 ELSE bts[2], Drop(bts, 2))
    ELSE IF bts[1] = 209 /\ Len(bts) >= 3
    THEN LET w == bts[2] * 256 + bts[3]
         IN  ReadOk(IF w >= 32768 THEN w - 65536 ELSE w, Drop(bts, 3))
    ELSE ReadErr

AppendInt(o, i) == AppendInt64(o, i)

ReadIntBytes(bts) == ReadInt64Bytes(bts)

RECURSIVE SkipN(_, _)
\* skips n objects
SkipN(bts, n) ==
    IF n = 0 THEN ReadOk(0, bts)
    ELSE IF bts = <<>> THEN ReadErr
    ELSE LET b == bts[1]
         IN  IF b <= 127 \/ b >= 224 \/ b \in {192, 194, 195}
             THEN SkipN(Tail(bts), n - 1)
             ELSE IF b \in 160 .. 191 /\ Len(bts) >= 1 + (b - 160)
             THEN SkipN(Drop(bts, 1 + (b - 160)), n - 1)
             ELSE IF b = 208 /\ Len(bts) >= 2 THEN SkipN(Drop(bts, 2), n - 1)
             ELSE IF b = 209 /\ Len(bts) >= 3 THEN SkipN(Drop(bts, 3), n - 1)
             ELSE IF b \in 144 .. 159 THEN SkipN(Tail(bts), n - 1 + (b - 144))
             ELSE IF b \in 128 .. 143
             THEN SkipN(Tail(bts), n - 1 + 2 * (b - 128))
             ELSE ReadErr

\* a Skip that steps over one byte, whatever the object
SkipOneByte(bts) == IF bts = <<>> THEN ReadErr ELSE ReadOk(0, Tail(bts))

Skip(bts) == SkipN(bts, 1)

\* the field names, as bytes
Field_Paths == <<80, 97, 116, 104, 115>>
Field_Propagate == <<80, 114, 111, 112, 97, 103, 97, 116, 101>>
Field_Count == <<67, 111, 117, 110, 116>>
Field_Peers == <<80, 101, 101, 114, 115>>
Field_path == <<112, 97, 116, 104>>
Field_isLeaf == <<105, 115, 76, 101, 97, 102>>
Field_intervals == <<105, 110, 116, 101, 114, 118, 97, 108, 115>>

\* what UnmarshalMsg returns: the value as far as it was filled, the bytes
\* left over, the error
Unmarshalled(z, o, err) == [z |-> z, o |-> o, err |-> err]

(* GraphiteTagDelSeries *)

RECURSIVE AppendStrings(_, _)
AppendStrings(o, ss) ==
    IF ss = <<>> THEN o
    ELSE AppendStrings(AppendString(o, Head(ss)), Tail(ss))

GraphiteTagDelSeries_MarshalMsg(z, b) ==
    LET o1 == b \o <<130, 165, 80, 97, 116, 104, 115>>
        o2 == AppendArrayHeader(o1, Len(z.Paths))
        o3 == AppendStrings(o2, z.Paths)
        o4 == o3 \o <<169, 80, 114, 111, 112, 97, 103, 97, 116, 101>>
    IN  AppendBool(o4, z.Propagate)

RECURSIVE ReadStrings(_, _)
ReadStrings(n, bts) ==
    IF n = 0 THEN ReadOk(<<>>, bts)
    ELSE LET s == ReadStringBytes(bts)
             r == ReadStrings(n - 1, s.bts)
         IN  IF s.err \/ r.err THEN ReadErr
             ELSE ReadOk(<<s.v>> \o r.v, r.bts)

RECURSIVE GraphiteTagDelSeries_Fields(_, _, _)
GraphiteTagDelSeries_Fields(z, zb0001, bts) ==
    IF zb0001 = 0 THEN Unmarshalled(z, bts, FALSE)
    ELSE LET field == ReadMapKeyZC(bts)
         IN  IF field.err THEN Unmarshalled(z, <<>>, TRUE)
             ELSE IF field.v = Field_Paths
             THEN LET zb0002 == ReadArrayHeaderBytes(field.bts)
                      paths  == ReadStrings(zb0002.v, zb0002.bts)
                  IN  IF zb0002.err \/ paths.err
                      THEN Unmarshalled(z, <<>>, TRUE)
                      ELSE GraphiteTagDelSeries_Fields(
                              [z EXCEPT !.Paths = paths.v],
                              zb0001 - 1, paths.bts)
             ELSE IF field.v = Field_Propagate
             THEN LET p == ReadBoolBytes(field.bts)
                  IN  IF p.err THEN Unmarshalled(z, <<>>, TRUE)
                      ELSE GraphiteTagDelSeries_Fields(
                              [z EXCEPT !.Propagate = p.v],
                              zb0001 - 1, p.bts)
             ELSE LET s == Skip(field.bts)
                  IN  IF s.err THEN Unmarshalled(z, <<>>, TRUE)
                      ELSE GraphiteTagDelSeries_Fields(z, zb0001 - 1, s.bts)

GraphiteTagDelSeries_UnmarshalMsg(z, bts) ==
    LET zb0001 == ReadMapHeaderBytes(bts)
    IN  IF zb0001.err THEN Unmarshalled(z, <<>>, TRUE)
        ELSE GraphiteTagDelSeries_Fields(z, zb0001.v, zb0001.bts)

(* GraphiteTagDelSeriesResp; the map Peers is a function, ranged over in   *)
(* the order the runtime picks                                             *)

NoPeers == [p \in {} |-> 0]

RECURSIVE AppendPeers(_, _, _)
AppendPeers(o, peers, order) ==
    IF order = <<>> THEN o
    ELSE AppendPeers(AppendInt(AppendString(o, Head(order)),
                               peers[Head(order)]),
                     peers, Tail(order))

GraphiteTagDelSeriesResp_MarshalMsg(z, b, order) ==
    LET o1 == b \o <<130, 165, 67, 111, 117, 110, 116>>
        o2 == AppendInt(o1, z.Count)
        o3 == o2 \o <<165, 80, 101, 101, 114, 115>>
        o4 == AppendMapHeader(o3, Cardinality(DOMAIN z.Peers))
    IN  AppendPeers(o4, z.Peers, order)

RECURSIVE ReadPeers(_, _, _)
ReadPeers(peers, zb0002, bts) ==
    IF zb0002 = 0 THEN ReadOk(peers, bts)
    ELSE LET za0001 == ReadStringBytes(bts)
             za0002 == ReadIntBytes(za0001.bts)
         IN  IF za0001.err \/ za0002.err THEN ReadErr
             ELSE ReadPeers(
                     [p \in DOMAIN peers \cup {za0001.v} |->
                         IF p = za0001.v THEN za0002.v ELSE peers[p]],
                     zb0002 - 1, za0002.bts)

RECURSIVE GraphiteTagDelSeriesResp_Fields(_, _, _)
GraphiteTagDelSeriesResp_Fields(z, zb0001, bts) ==
    IF zb0001 = 0 THEN Unmarshalled(z, bts, FALSE)
    ELSE LET field == ReadMapKeyZC(bts)
         IN  IF field.err THEN Unmarshalled(z, <<>>, TRUE)
             ELSE IF field.v = Field_Count
             THEN LET c == ReadIntBytes(field.bts)
                  IN  IF c.err THEN Unmarshalled(z, <<>>, TRUE)
                      ELSE GraphiteTagDelSeriesResp_Fields(
                              [z EXCEPT !.Count = c.v], zb0001 - 1, c.bts)
             ELSE IF field.v = Field_Peers
             THEN LET zb0002 == ReadMapHeaderBytes(field.bts)
                      peers  == ReadPeers(NoPeers, zb0002.v, zb0002.bts)
                  IN  IF zb0002.err \/ peers.err
                      THEN Unmarshalled(z, <<>>, TRUE)
                      ELSE GraphiteTagDelSeriesResp_Fields(
                              [z EXCEPT !.Peers = peers.v],
                              zb0001 - 1, peers.bts)
             ELSE LET s == Skip(field.bts)
                  IN  IF s.err THEN Unmarshalled(z, <<>>, TRUE)
                      ELSE GraphiteTagDelSeriesResp_Fields(z, zb0001 - 1,
                                                           s.bts)

GraphiteTagDelSeriesResp_UnmarshalMsg(z, bts) ==
    LET zb0001 == ReadMapHeaderBytes(bts)
    IN  IF zb0001.err THEN Unmarshalled(z, <<>>, TRUE)
        ELSE GraphiteTagDelSeriesResp_Fields(z, zb0001.v, zb0001.bts)

(* SeriesPickleItem *)

RECURSIVE AppendInt64s(_, _)
AppendInt64s(o, is) ==
    IF is = <<>> THEN o
    ELSE AppendInt64s(AppendInt64(o, Head(is)), Tail(is))

RECURSIVE AppendIntervals(_, _)
AppendIntervals(o, intervals) ==
    IF intervals = <<>> THEN o
    ELSE AppendIntervals(
            AppendInt64s(AppendArrayHeader(o, Len(Head(intervals))),
                         Head(intervals)),
            Tail(intervals))

\* a map header that announces two fields
SeriesPickleItem_MarshalMsgTwoFields(z, b) ==
    LET o1 == b \o <<130, 164, 112, 97, 116, 104>>
        o2 == AppendString(o1, z.Path)
        o3 == o2 \o <<166, 105, 115, 76, 101, 97, 102>>
        o4 == AppendBool(o3, z.IsLeaf)
        o5 == o4 \o <<169, 105, 110, 116, 101, 114, 118, 97, 108, 115>>
        o6 == AppendArrayHeader(o5, Len(z.Intervals))
    IN  AppendIntervals(o6, z.Intervals)

SeriesPickleItem_MarshalMsg(z, b) ==
    LET o1 == b \o <<131, 164, 112, 97, 116, 104>>
        o2 == AppendString(o1, z.Path)
        o3 == o2 \o <<166, 105, 115, 76, 101, 97, 102>>
        o4 == AppendBool(o3, z.IsLeaf)
        o5 == o4 \o <<169, 105, 110, 116, 101, 114, 118, 97, 108, 115>>
        o6 == AppendArrayHeader(o5, Len(z.Intervals))
    IN  AppendIntervals(o6, z.Intervals)

RECURSIVE ReadInt64s(_, _)
ReadInt64s(n, bts) ==
    IF n = 0 THEN ReadOk(<<>>, bts)
    ELSE LET i == ReadInt64Bytes(bts)
             r == ReadInt64s(n - 1, i.bts)
         IN  IF i.err \/ r.err THEN ReadErr
             ELSE ReadOk(<<i.v>> \o r.v, r.bts)

RECURSIVE ReadIntervals(_, _)
ReadIntervals(n, bts) ==
    IF n = 0 THEN ReadOk(<<>>, bts)
    ELSE LET zb0003 == ReadArrayHeaderBytes(bts)
             is     == ReadInt64s(zb0003.v, zb0003.bts)
             r      == ReadIntervals(n - 1, is.bts)
         IN  IF zb0003.err \/ is.err \/ r.err THEN ReadErr
             ELSE ReadOk(<<is.v>> \o r.v, r.bts)

RECURSIVE SeriesPickleItem_Fields(_, _, _)
SeriesPickleItem_Fields(z, zb0001, bts) ==
    IF zb0001 = 0 THEN Unmarshalled(z, bts, FALSE)
    ELSE LET field == ReadMapKeyZC(bts)
         IN  IF field.err THEN Unmarshalled(z, <<>>, TRUE)
             ELSE IF field.v = Field_path
             THEN LET p == ReadStringBytes(field.bts)
                  IN  IF p.err THEN Unmarshalled(z, <<>>, TRUE)
                      ELSE SeriesPickleItem_Fields(
                              [z EXCEPT !.Path = p.v], zb0001 - 1, p.bts)
             ELSE IF field.v = Field_isLeaf
             THEN LET l == ReadBoolBytes(field.bts)
                  IN  IF l.err THEN Unmarshalled(z, <<>>, TRUE)
                      ELSE SeriesPickleItem_Fields(
                              [z EXCEPT !.IsLeaf = l.v], zb0001 - 1, l.bts)
             ELSE IF field.v = Field_intervals
             THEN LET zb0002 == ReadArrayHeaderBytes(field.bts)
                      is     == ReadIntervals(zb0002.v, zb0002.bts)
                  IN  IF zb0002.err \/ is.err
                      THEN Unmarshalled(z, <<>>, TRUE)
                      ELSE SeriesPickleItem_Fields(
                              [z EXCEPT !.Intervals = is.v],
                              zb0001 - 1, is.bts)
             ELSE LET s == Skip(field.bts)
                  IN  IF s.err THEN Unmarshalled(z, <<>>, TRUE)
                      ELSE SeriesPickleItem_Fields(z, zb0001 - 1, s.bts)

SeriesPickleItem_UnmarshalMsg(z, bts) ==
    LET zb0001 == ReadMapHeaderBytes(bts)
    IN  IF zb0001.err THEN Unmarshalled(z, <<>>, TRUE)
        ELSE SeriesPickleItem_Fields(z, zb0001.v, zb0001.bts)

(* SeriesPickle *)

RECURSIVE AppendItems(_, _)
AppendItems(o, items) ==
    IF items = <<>> THEN o
    ELSE AppendItems(SeriesPickleItem_MarshalMsg(Head(items), o), Tail(items))

SeriesPickle_MarshalMsg(z, b) ==
    AppendItems(AppendArrayHeader(b, Len(z)), z)

ZeroSeriesPickleItem == [Path |-> <<>>, IsLeaf |-> FALSE, Intervals |-> <<>>]

RECURSIVE SeriesPickle_Items(_, _, _)
\* fills the items from index zb0001 on
SeriesPickle_Items(z, zb0001, bts) ==
    IF zb0001 > Len(z) THEN Unmarshalled(z, bts, FALSE)
    ELSE LET item == SeriesPickleItem_UnmarshalMsg(z[zb0001], bts)
         IN  IF item.err
             THEN Unmarshalled([z EXCEPT ![zb0001] = item.z], <<>>, TRUE)
             ELSE SeriesPickle_Items([z EXCEPT ![zb0001] = item.z],
                                     zb0001 + 1, item.o)

\* into a value z of no capacity: make(SeriesPickle, zb0002)
SeriesPickle_UnmarshalMsg(z, bts) ==
    LET zb0002 == ReadArrayHeaderBytes(bts)
    IN  IF zb0002.err THEN Unmarshalled(z, <<>>, TRUE)
        ELSE SeriesPickle_Items([i \in 1 .. zb0002.v |-> ZeroSeriesPickleItem],
                                1, zb0002.bts)

(* the values the round trips are run on *)

\* "", "a", "a.b", and a path spelled like a field name
PathStrings == {<<>>, <<97>>, <<97, 46, 98>>, Field_Paths}

TagDels ==
    [Paths : SeqsUpTo(PathStrings, MaxPaths),
     Propagate : BOOLEAN]

PeerNames == {<<112, 49>>, <<112, 50>>}

PeerCounts == {-1, 0, 300}

Resps ==
    [Count : {-33, 0, 7, 128},
     Peers : UNION {[ps -> PeerCounts] : ps \in SUBSET PeerNames}]

\* the orders a range over the map may take
RangeOrders(m) ==
    {order \in [1 .. Cardinality(DOMAIN m) -> DOMAIN m] :
        \A i, j \in DOMAIN order : i # j => order[i] # order[j]}

IntervalSets ==
    {<<>>, <<0, 10>>, <<-129, 32767>>, <<-32768, -33>>, <<-32, 127>>,
     <<128, 255>>}

PickleItems ==
    [Path : {<<>>, <<97, 46, 98>>},
     IsLeaf : BOOLEAN,
     Intervals : SeqsUpTo(IntervalSets, MaxIntervals)]

\* the items the collections are made of
CollectionItems ==
    {[Path |-> <<97>>, IsLeaf |-> FALSE, Intervals |-> <<>>],
     [Path |-> <<97, 46, 98>>, IsLeaf |-> TRUE,
      Intervals |-> <<<<0, 10>>, <<-129, 32767>>>>],
     [Path |-> Field_path, IsLeaf |-> TRUE, Intervals |-> <<<<>>>>]}

Pickles == SeqsUpTo(CollectionItems, MaxItems)

ZeroGraphiteTagDelSeries == [Paths |-> <<>>, Propagate |-> FALSE]

ZeroGraphiteTagDelSeriesResp == [Count |-> 0, Peers |-> NoPeers]

CallGraphiteTagDelSeries(x) ==
    /\ LET bts == GraphiteTagDelSeries_MarshalMsg(x, <<>>)
       IN  fcall' = [fn |-> "GraphiteTagDelSeries", x |-> x, bts |-> bts,
                     ret |-> GraphiteTagDelSeries_UnmarshalMsg(
                                ZeroGraphiteTagDelSeries, bts)]
    /\ UNCHANGED <<writeVars, storeVars, regVars, readVars, legacyVars,
                   bootVars, aggVars, semVars, fanVars>>

CallGraphiteTagDelSeriesResp(x, order) ==
    /\ LET bts == GraphiteTagDelSeriesResp_MarshalMsg(x, <<>>, order)
       IN  fcall' = [fn |-> "GraphiteTagDelSeriesResp", x |-> x, bts |-> bts,
                     ret |-> GraphiteTagDelSeriesResp_UnmarshalMsg(
                                ZeroGraphiteTagDelSeriesResp, bts)]
    /\ UNCHANGED <<writeVars, storeVars, regVars, readVars, legacyVars,
                   bootVars, aggVars, semVars, fanVars>>

CallSeriesPickleItem(x) ==
    /\ LET bts == SeriesPickleItem_MarshalMsg(x, <<>>)
       IN  fcall' = [fn |-> "SeriesPickleItem", x |-> x, bts |-> bts,
                     ret |-> SeriesPickleItem_UnmarshalMsg(
                                ZeroSeriesPickleItem, bts)]
    /\ UNCHANGED <<writeVars, storeVars, regVars, readVars, legacyVars,
                   bootVars, aggVars, semVars, fanVars>>

CallSeriesPickle(x) ==
    /\ LET bts == SeriesPickle_MarshalMsg(x, <<>>)
       IN  fcall' = [fn |-> "SeriesPickle", x |-> x, bts |-> bts,
                     ret |-> SeriesPickle_UnmarshalMsg(<<>>, bts)]
    /\ UNCHANGED <<writeVars, storeVars, regVars, readVars, legacyVars,
                   bootVars, aggVars, semVars, fanVars>>

NextCodec ==
    \/ \E x \in TagDels : CallGraphiteTagDelSeries(x)
    \/ \E x \in Resps : \E order \in RangeOrders(x.Peers) :
          CallGraphiteTagDelSeriesResp(x, order)
    \/ \E x \in PickleItems : CallSeriesPickleItem(x)
    \/ \E x \in Pickles : CallSeriesPickle(x)

CodecSpec == Init /\ [][NextCodec]_vars

RoundTripFns ==
    {"GraphiteTagDelSeries", "GraphiteTagDelSeriesResp", "SeriesPickleItem",
     "SeriesPickle"}

\* C17: for a tag-delete request, a tag-delete response, a series-metadata
\* entry and a series-metadata collection x, UnmarshalMsg of the bytes that
\* MarshalMsg made of x, into a fresh value, gives no error, a value equal
\* to x, and no bytes left over.
C17_RoundTrip ==
    fcall.fn \in RoundTripFns =>
        /\ ~fcall.ret.err
        /\ fcall.ret.z = fcall.x
        /\ fcall.ret.o = <<>>

\* a collection of two entries, the second with two interval pairs, came
\* back whole
C17_Witness ==
    /\ fcall.fn = "SeriesPickle"
    /\ Len(fcall.x) = 2
    /\ fcall.x[2].Intervals = <<<<0, 10>>, <<-129, 32767>>>>
    /\ fcall.bts[1] = 146
    /\ ~fcall.ret.err /\ fcall.ret.z = fcall.x /\ fcall.ret.o = <<>>

(***************************************************************************)
(* Construction of the store.                                              *)
(***************************************************************************)
NextBoot ==
    \/ \E createKeyspace \in BOOLEAN, sessionOk \in BOOLEAN :
          NewCassandraStoreCall(createKeyspace, sessionOk)
    \/ \E queriesOk \in BOOLEAN : BootCreate(queriesOk)
    \/ \E keyspaceFound \in BOOLEAN, tables \in SUBSET TtlTableNames,
          missing \in TtlTableNames :
          BootVerify(keyspaceFound, tables, missing)
    \/ BootVerified
    \/ \E policyOk \in BOOLEAN, sessionOk \in BOOLEAN :
          BootConnect(policyOk, sessionOk)

BootSpec == Init /\ [][NextBoot]_vars

\* C18: with CreateKeyspace false the keyspace and the tables are checked at
\* most five times, and a call whose fifth check still found the keyspace or
\* a table missing returns a non-nil error and no store, with no worker
\* started.
C18_StartupVerification ==
    /\ boot.attempt <= VerifyAttempts
    /\ Len(boot.log) <= VerifyAttempts
    /\ (/\ boot.pc = "ret"
        /\ ~boot.CreateKeyspace
        /\ Len(boot.log) = VerifyAttempts)
        => (/\ boot.ret.err # "nil"
            /\ ~boot.ret.store
            /\ boot.workers = 0)

(***************************************************************************)
(* Backpressure of the write queues.                                       *)
(***************************************************************************)
\* C19: a shard's write queue never holds more than WriteQueueSize
\* requests; an Add returns only by a step from a state in which its shard's
\* queue is not full, and that step puts the request at the end of the
\* queue, so an Add on a full shard waits for the worker to dequeue and
\* gives up no request.
C19_WriteBackpressure ==
    /\ [](\A q \in Shards : Len(writeQueues[q]) <= WriteQueueSize)
    /\ [][\A k \in Keys :
            added'[k] # added[k] =>
                LET cwr   == MkCwr(k, added'[k])
                    which == AddWhich(cwr)
                IN  /\ Len(writeQueues[which]) < WriteQueueSize
                    /\ writeQueues'[which] = Append(writeQueues[which], cwr)
         ]_vars

\* a shard's queue is full with the second request of a key while the
\* shard's worker holds the first: the second Add got in after the dequeue
C19_Witness ==
    \E q \in Shards, k \in Keys :
        /\ Len(writeQueues[q]) = WriteQueueSize
        /\ writeQueues[q][WriteQueueSize] = MkCwr(k, 2)
        /\ writers[q].pc # "idle"
        /\ writers[q].cwr = MkCwr(k, 1)

\* a watermark that takes the t0 of the last acknowledgement
LastSaveFinishLatest(lastSaveFinish, t0) == t0

\* SyncChunkSaveState's new lastSaveFinish
LastSaveFinish(lastSaveFinish, t0) == Max(lastSaveFinish, t0)

\* the T0 of the write requests the metric has enqueued
AggWritten == {agg.writes[i].T0 : i \in DOMAIN agg.writes}

\* the t0 acknowledged so far
AggAcked == {agg.acks[i] : i \in DOMAIN agg.acks}

\* AggMetric.SyncChunkSaveState(t0), called by a write worker after the
\* insert of the chunk t0 succeeded; the workers' calls arrive in any order
AggMetricSyncChunkSaveState(t0) ==
    /\ t0 \in AggWritten \ AggAcked
    /\ agg' = [agg EXCEPT
                 !.lastSaveFinish = LastSaveFinish(agg.lastSaveFinish, t0),
                 !.acks = Append(@, t0)]
    /\ UNCHANGED <<writeVars, storeVars, regVars, readVars, legacyVars,
                   pureVars, bootVars, semVars, fanVars>>

(***************************************************************************)
(* Appends to one metric.                                                  *)
(***************************************************************************)
NextAgg == \E ts \in AppendTs : AggMetricAdd(ts)

AggSpec == Init /\ [][NextAgg]_vars

\* the metric without the bookkeeping of the calls
AggState(a) == <<a.chunks, a.currentChunkT0, a.writes>>

\* C20: of the appends to a metric that has a current chunk, one with
\* ts < currentChunkT0 leaves the metric as it was; one inside the current
\* interval adds the point to the open chunk and enqueues nothing; one whose
\* newT0 = ts - (ts mod chunkSpan) is above currentChunkT0 seals the current
\* chunk and enqueues exactly one write request, for that chunk. The write
\* requests have strictly increasing T0, so no chunk is enqueued twice.
C20_AppendStateMachine ==
    /\ [](\A i, j \in DOMAIN agg.writes :
            i < j => agg.writes[i].T0 < agg.writes[j].T0)
    /\ [][(agg'.calls = agg.calls + 1 /\ agg.chunks # <<>>) =>
            LET ts    == agg'.ts
                newT0 == ts - (ts % AggChunkSpan)
                n     == Len(agg.chunks)
                open  == agg.chunks[n]
            IN  /\ ts < agg.currentChunkT0 => AggState(agg') = AggState(agg)
                /\ (ts >= agg.currentChunkT0
                        /\ ts < agg.currentChunkT0 + AggChunkSpan) =>
                      /\ agg'.writes = agg.writes
                      /\ agg'.currentChunkT0 = agg.currentChunkT0
                      /\ agg'.chunks =
                            [agg.chunks EXCEPT ![n].points = Append(@, ts)]
                /\ newT0 > agg.currentChunkT0 =>
                      /\ Len(agg'.writes) = Len(agg.writes) + 1
                      /\ agg'.writes[Len(agg'.writes)].T0 = agg.currentChunkT0
                      /\ agg'.writes[Len(agg'.writes)].points = open.points
                      /\ agg'.currentChunkT0 = newT0
                      /\ agg'.chunks[Len(agg'.chunks)] =
                            [T0 |-> newT0, points |-> <<ts>>, closed |-> FALSE]
                      /\ \A i \in 1 .. Len(agg'.chunks) - 1 :
                            agg'.chunks[i].closed
         ]_vars

\* the chunks of 0 and of 600 were sealed and enqueued in that order, a late
\* point was dropped, and the chunk of 1200 is open
C20_Witness ==
    /\ agg.calls = 4
    /\ agg.ts = 300
    /\ agg.currentChunkT0 = 1200
    /\ Len(agg.writes) = 2
    /\ agg.writes[1].T0 = 0 /\ agg.writes[2].T0 = 600
    /\ ~agg.chunks[Len(agg.chunks)].closed

\* the state after Add(1000) alone, and the step that is Add(1600) after it
S3First == agg.calls = 1 /\ agg.ts = 1000

S3Second == S3First /\ agg'.calls = 2 /\ agg'.ts = 1600

\* what S3 says of the two appends, but for the T0 of the chunk the second
\* one opens
S3Outcome(t0) ==
    /\ agg.chunks = <<[T0 |-> 600, points |-> <<1000>>, closed |-> FALSE]>>
    /\ agg.writes = <<>>
    /\ Len(agg'.writes) = 1
    /\ agg'.writes[1].T0 = 600
    /\ agg'.chunks = <<[T0 |-> 600, points |-> <<1000>>, closed |-> TRUE],
                       [T0 |-> t0, points |-> <<1600>>, closed |-> FALSE]>>
    /\ agg'.currentChunkT0 = t0

\* C21 as stated: with chunkSpan 600 and numChunks 2, Add(1000) opens a
\* chunk at T0 = 600 holding one point, and the following Add(1600) seals
\* it, enqueues exactly one write request and opens a chunk at T0 = 1500.
C21_ScenarioS3 == [][S3Second => S3Outcome(1500)]_vars

\* C21, amended: with chunkSpan 600 and numChunks 2, Add(1000) opens a
\* chunk at T0 = 600 holding one point, and the following Add(1600) seals
\* it, enqueues exactly one write request and opens a chunk at
\* T0 = 1600 - 1600 mod 600 = 1200.
C21_ScenarioS3Aligned == [][S3Second => S3Outcome(1200)]_vars

\* after Add(1000) and Add(1600): one write request, for the chunk of 600,
\* and the chunk of 1200 open with the point 1600
C21_Witness ==
    /\ agg.calls = 2 /\ agg.ts = 1600
    /\ agg.writes = <<AggCwr([T0 |-> 600, points |-> <<1000>>])>>
    /\ agg.currentChunkT0 = 1200
    /\ agg.chunks[2] = [T0 |-> 1200, points |-> <<1600>>, closed |-> FALSE]

(***************************************************************************)
(* Appends and acknowledgements of one metric.                             *)
(***************************************************************************)
\* the chunk starts a point of AppendTs may fall into
AppendT0s == {ts - (ts % AggChunkSpan) : ts \in AppendTs}

NextAck ==
    \/ \E ts \in AppendTs : AggMetricAdd(ts)
    \/ \E t0 \in AppendT0s : AggMetricSyncChunkSaveState(t0)

AckSpec == Init /\ [][NextAck]_vars

RECURSIVE MaxOf(_)
\* the largest member of a finite set of naturals, 0 for the empty set
MaxOf(S) ==
    IF S = {} THEN 0
    ELSE LET x == CHOOSE y \in S : TRUE IN Max(x, MaxOf(S \ {x}))

\* C22: whatever the order in which the acknowledgements of the enqueued
\* chunks and the appends arrive, lastSaveFinish is the largest t0
\* acknowledged so far (0 before the first), it never exceeds
\* currentChunkT0, and no step lowers it.
C22_PersistedWatermark ==
    /\ [](agg.lastSaveFinish = MaxOf(AggAcked))
    /\ [](agg.lastSaveFinish <= agg.currentChunkT0)
    /\ [][agg'.lastSaveFinish >= agg.lastSaveFinish]_vars

\* the chunk of 600 was acknowledged before the chunk of 0: the watermark
\* stays at 600
C22_Witness ==
    /\ agg.acks = <<600, 0>>
    /\ agg.lastSaveFinish = 600
    /\ agg.currentChunkT0 = 1200

(***************************************************************************)
(* Searches over rows that hold frames which cannot be decoded.            *)
(***************************************************************************)
\* the chunk starts of the rows
CorruptTs == {600, 1200, 1800}

\* frames of the partitioned layout: a good one, an empty one, one of one
\* byte, one with a format byte no decoder knows
StoreFrames == {PrepareChunkData(600, <<7>>), <<>>,
                <<FormatStandardGoTszWithSpan>>, <<9, 7>>}

\* the same for the single-table layout
LegacyFrames == {<<FormatStandardGoTsz, 7>>, <<>>, <<FormatStandardGoTsz>>,
                 <<9, 7>>}

CorruptInit ==
    /\ InitWrite /\ InitReg /\ InitRead /\ InitLegacy /\ InitPure
    /\ InitBoot /\ InitAgg /\ InitSem /\ InitFan
    /\ stored = {}
    /\ \/ \E data \in [CorruptTs -> StoreFrames] :
             rows = {[table |-> getTable(3600).table,
                      key |-> RowKey(SearchKey, t), ts |-> t,
                      data |-> data[t]] : t \in CorruptTs}
       \/ \E data \in [CorruptTs -> LegacyFrames] :
             rows = {[table |-> legacyTable, key |-> RowKey(SearchKey, t),
                      ts |-> t, data |-> data[t]] : t \in CorruptTs}

NextCorrupt ==
    \/ \E start \in {600, 1200} : StoreSearch(start, 1900)
    \/ SearchOffer("s1")
    \/ \E r \in ReadWorkers : ReadDequeue(r)
    \/ \E r \in ReadWorkers : ReadProcess(r)
    \/ SearchWait("s1")
    \/ SearchScan("s1")
    \/ \E start \in {600, 1200} : LegacySearch(start, 1900)
    \/ LegacyQueryDone
    \/ LegacyCollect

CorruptSpec == CorruptInit /\ [][NextCorrupt]_vars

\* the error a frame of the partitioned layout is refused with, "nil" for a
\* frame that can be decoded
StoreFrameErr(data) ==
    IF Len(data) < 2 THEN errChunkTooSmall
    ELSE IF data[1] # FormatStandardGoTszWithSpan THEN errUnknownFormat
    ELSE "nil"

LegacyFrameErr(data) ==
    IF Len(data) < 2 THEN errSmallChunk
    ELSE IF data[1] # FormatStandardGoTsz THEN errUnrecognizedFormat
    ELSE "nil"

RECURSIVE OutcomeCells(_)
\* the rows of the outcomes, in the order the outcomes are scanned
OutcomeCells(outcomes) ==
    IF outcomes = <<>> THEN <<>>
    ELSE Head(outcomes).i \o OutcomeCells(Tail(outcomes))

\* the rows the legacy search that has returned went over
LegacyScanned == OutcomeCells(SortOutcomes(legacy.outcomes))

\* C23: a search that scanned a row whose data is shorter than 2 bytes or
\* has an unknown format byte returns the error of the first such row in
\* scan order (too small, resp. unknown format), and has decoded exactly the
\* rows before it; this holds for Search and for the legacy searchCassandra.
C23_CorruptFrame ==
    /\ \A s \in Searchers :
          srch[s].pc = "ret" =>
            \A i \in DOMAIN srch[s].iter :
               (/\ StoreFrameErr(srch[s].iter[i].data) # "nil"
                /\ \A j \in 1 .. i - 1 :
                      StoreFrameErr(srch[s].iter[j].data) = "nil")
               => /\ srch[s].err = StoreFrameErr(srch[s].iter[i].data)
                  /\ Len(srch[s].itgens) = i - 1
                  /\ \A j \in 1 .. i - 1 :
                        srch[s].itgens[j].Ts = srch[s].iter[j].ts
    /\ legacy.pc = "ret" =>
          \A i \in DOMAIN LegacyScanned :
             (/\ LegacyFrameErr(LegacyScanned[i].data) # "nil"
              /\ \A j \in 1 .. i - 1 :
                    LegacyFrameErr(LegacyScanned[j].data) = "nil")
             => /\ legacy.err = LegacyFrameErr(LegacyScanned[i].data)
                /\ Len(legacy.iters) = i - 1
                /\ \A j \in 1 .. i - 1 :
                      legacy.iters[j].t0 = LegacyScanned[j].ts

\* a Search met a frame of one byte in the second of three rows: it returned
\* ChunkTooSmall with the one generator of the first row
C23_Witness ==
    /\ srch["s1"].pc = "ret"
    /\ Len(srch["s1"].iter) = 3
    /\ Len(srch["s1"].iter[1].data) >= 2
    /\ Len(srch["s1"].iter[2].data) = 1
    /\ srch["s1"].err = errChunkTooSmall
    /\ Len(srch["s1"].itgens) = 1

(***************************************************************************)
(* Frames.                                                                 *)
(***************************************************************************)
MaxPayload == 3

\* spans of the static table, and two that are not in it
FrameSpans == {60, 300, 600, 0, 900}

Payloads == SeqsUpTo({0, 7, 255}, MaxPayload)

\* PrepareChunkData(span, data): the frame returned, or the panic for a span
\* that RevChunkSpans does not list
CallPrepareChunkData(span, data) ==
    /\ fcall' = IF span \in DOMAIN RevChunkSpans
                THEN [fn |-> "PrepareChunkData", span |-> span, data |-> data,
                      panic |-> FALSE, ret |-> PrepareChunkData(span, data)]
                ELSE [fn |-> "PrepareChunkData", span |-> span, data |-> data,
                      panic |-> TRUE, ret |-> <<>>]
    /\ UNCHANGED <<writeVars, storeVars, regVars, readVars, legacyVars,
                   bootVars, aggVars, semVars, fanVars>>

NextFrame ==
    \E span \in FrameSpans, data \in Payloads : CallPrepareChunkData(span, data)

FrameSpec == Init /\ [][NextFrame]_vars

\* C24: for a span of the static span table and any payload
\* PrepareChunkData returns a frame of len(payload) + 2 bytes: the
\* StandardGoTszWithSpan format, the code the table gives the span, and the
\* payload unchanged; for a span that is not in the table it panics and
\* returns no frame.
C24_FrameEncoding ==
    fcall.fn = "PrepareChunkData" =>
        IF \E code \in DOMAIN ChunkSpans : ChunkSpans[code] = fcall.span
        THEN /\ ~fcall.panic
             /\ Len(fcall.ret) = Len(fcall.data) + 2
             /\ fcall.ret[1] = FormatStandardGoTszWithSpan
             /\ fcall.ret[2] \in DOMAIN ChunkSpans
             /\ ChunkSpans[fcall.ret[2]] = fcall.span
             /\ SubSeq(fcall.ret, 3, Len(fcall.ret)) = fcall.data
        ELSE fcall.panic /\ fcall.ret = <<>>

\* the frame of a payload of three bytes with the span 300
C24_Witness ==
    /\ fcall.fn = "PrepareChunkData"
    /\ fcall.span = 300 /\ fcall.data = <<7, 0, 255>>
    /\ fcall.ret = <<1, 2, 7, 0, 255>>

(***************************************************************************)
(* The retry loop of one chunk, with failures enough to reach the cap of   *)
(* the sleep.                                                              *)
(***************************************************************************)
BackoffFailures == 22

BackoffInit ==
    /\ added = [k \in Keys |-> 0]
    /\ writeQueues = [q \in Shards |-> <<>>]
    /\ writers = [q \in Shards |-> writerIdle]
    /\ failBudget = BackoffFailures
    /\ insertAttempts = [r \in ReqIds |-> 0]
    /\ insertOk = [r \in ReqIds |-> 0]
    /\ syncCalls = [r \in ReqIds |-> 0]
    /\ persistMsgs = [r \in ReqIds |-> 0]
    /\ chunkSaveOk = 0
    /\ chunkSaveFail = 0
    /\ InitStore /\ InitReg /\ InitRead /\ InitLegacy /\ InitPure
    /\ InitBoot /\ InitAgg /\ InitSem /\ InitFan

\* the first Add of the process
BackoffAdd(k) ==
    /\ \A other \in Keys : added[other] = 0
    /\ Add(k)

NextBackoff ==
    \/ \E k \in Keys : BackoffAdd(k)
    \/ \E q \in Shards : WriteDequeue(q)
    \/ \E q \in Shards : WriteInsert(q)
    \/ \E q \in Shards : WriteWake(q)

BackoffSpec == BackoffInit /\ [][NextBackoff]_vars

\* the step of shard q's worker from a failed insert into the sleep
BackoffSleeps(q) == writers[q].pc = "insert" /\ writers'[q].pc = "sleep"

\* C25 as stated: after a failed insert the worker sleeps
\* min(100 ms * attempts, 2000 ms), attempts being the number of insert
\* attempts already made for the chunk; the sleep is never above 2000 ms and
\* never shorter than the chunk's sleep before.
C25_RetryBackoff ==
    [][\A q \in Shards :
          BackoffSleeps(q) =>
            /\ writers'[q].sleepTime =
                  Min(100 * insertAttempts'[ReqOf(writers[q].cwr)], 2000)
            /\ writers'[q].sleepTime <= 2000
            /\ writers'[q].sleepTime >= writers[q].sleepTime]_vars

\* C25, amended: after a failed insert the worker sleeps
\* min(100 ms * attempts, 2000 ms), attempts being the number of the chunk's
\* insert attempts that failed before this one (the attempts made so far
\* less one: no sleep after the first failure); the sleep is never above
\* 2000 ms and never shorter than the chunk's sleep before.
C25_RetryBackoffFromZero ==
    [][\A q \in Shards :
          BackoffSleeps(q) =>
            /\ writers'[q].sleepTime =
                  Min(100 * (insertAttempts'[ReqOf(writers[q].cwr)] - 1), 2000)
            /\ writers'[q].sleepTime <= 2000
            /\ writers'[q].sleepTime >= writers[q].sleepTime]_vars

\* the 22nd attempt of a chunk failed and the worker sleeps 2000 ms
C25_Witness ==
    \E q \in Shards :
        /\ writers[q].pc = "sleep"
        /\ insertAttempts[ReqOf(writers[q].cwr)] = 22
        /\ writers[q].sleepTime = 2000

(***************************************************************************)
(* The err == nil branch of the retry loop, one statement a step.          *)
(***************************************************************************)
\* the statement that follows in the branch, counting the chunk first
SaveOrderCountFirst(pc) ==
    CASE pc = "insert" -> "count"
      [] pc = "count"  -> "sync"
      [] pc = "sync"   -> "notify"
      [] pc = "notify" -> "idle"

\* the statement that follows in the branch: SyncChunkSaveState,
\* SendPersistMessage, chunkSaveOk.Inc(), and the loop ends
SaveOrder(pc) ==
    CASE pc = "insert" -> "sync"
      [] pc = "sync"   -> "notify"
      [] pc = "notify" -> "count"
      [] pc = "count"  -> "idle"

\* the writer after one statement of the branch
SaveAdvance(q) ==
    LET to == SaveOrder(writers[q].pc)
    IN  writers' = [writers EXCEPT ![q] =
            IF to = "idle" THEN writerIdle ELSE [@ EXCEPT !.pc = to]]

\* one pass of the retry loop: insertChunk, and success = true or the else
\* branch up to the sleep
SaveInsert(q) ==
    /\ writers[q].pc = "insert"
    /\ LET cwr == writers[q].cwr
           t   == getTable(cwr.TTL)
           ks  == KeyString(cwr.Key)
           put == InsertChunk(ks, cwr.T0, cwr.TTL, writers[q].buf)
           sto == StoredAfter(ks, cwr.T0, cwr.TTL, cwr.Span)
       IN  /\ insertAttempts' = [insertAttempts EXCEPT ![ReqOf(cwr)] = @ + 1]
           /\ \/ /\ t.err # "nil"
                 /\ OnInsertError(q)
                 /\ UNCHANGED <<rows, stored, failBudget>>
              \/ /\ t.err = "nil"
                 /\ rows' = put
                 /\ stored' = sto
                 /\ insertOk' = [insertOk EXCEPT ![ReqOf(cwr)] = @ + 1]
                 /\ SaveAdvance(q)
                 /\ UNCHANGED <<failBudget, syncCalls, persistMsgs,
                                chunkSaveOk, chunkSaveFail>>
              \/ /\ t.err = "nil"
                 /\ failBudget > 0
                 /\ failBudget' = failBudget - 1
                 /\ \/ rows' = rows /\ stored' = stored
                    \/ rows' = put /\ stored' = sto
                 /\ OnInsertError(q)
    /\ UNCHANGED <<added, writeQueues>>
    /\ UNCHANGED <<regVars, readVars, legacyVars, pureVars, bootVars, aggVars, semVars, fanVars>>

\* cwr.Metric.SyncChunkSaveState(cwr.Chunk.T0)
SaveSync(q) ==
    /\ writers[q].pc = "sync"
    /\ syncCalls' = [syncCalls EXCEPT ![ReqOf(writers[q].cwr)] = @ + 1]
    /\ SaveAdvance(q)
    /\ UNCHANGED <<added, writeQueues, failBudget, insertAttempts, insertOk,
                   persistMsgs, chunkSaveOk, chunkSaveFail, rows, stored>>
    /\ UNCHANGED <<regVars, readVars, legacyVars, pureVars, bootVars, aggVars, semVars, fanVars>>

\* mdata.SendPersistMessage(keyStr, cwr.Chunk.T0)
SaveNotify(q) ==
    /\ writers[q].pc = "notify"
    /\ persistMsgs' = [persistMsgs EXCEPT ![ReqOf(writers[q].cwr)] = @ + 1]
    /\ SaveAdvance(q)
    /\ UNCHANGED <<added, writeQueues, failBudget, insertAttempts, insertOk,
                   syncCalls, chunkSaveOk, chunkSaveFail, rows, stored>>
    /\ UNCHANGED <<regVars, readVars, legacyVars, pureVars, bootVars, aggVars, semVars, fanVars>>

\* chunkSaveOk.Inc()
SaveCount(q) ==
    /\ writers[q].pc = "count"
    /\ chunkSaveOk' = chunkSaveOk + 1
    /\ SaveAdvance(q)
    /\ UNCHANGED <<added, writeQueues, failBudget, insertAttempts, insertOk,
                   syncCalls, persistMsgs, chunkSaveFail, rows, stored>>
    /\ UNCHANGED <<regVars, readVars, legacyVars, pureVars, bootVars, aggVars, semVars, fanVars>>

NextSave ==
    \/ \E k \in Keys : Add(k)
    \/ \E q \in Shards : WriteDequeue(q)
    \/ \E q \in Shards : SaveInsert(q)
    \/ \E q \in Shards : SaveSync(q)
    \/ \E q \in Shards : SaveNotify(q)
    \/ \E q \in Shards : SaveCount(q)
    \/ \E q \in Shards : WriteWake(q)

SaveSpec == Init /\ [][NextSave]_vars

\* the requests a worker is through with
SaveCompleted ==
    {r \in ReqIds : /\ insertOk[r] > 0
                    /\ \A q \in Shards : writers[q].pc = "idle"
                                            \/ ReqOf(writers[q].cwr) # r}

\* the insert attempts that failed
SaveFailedAttempts ==
    SumAdded([r \in ReqIds |-> insertAttempts[r] - insertOk[r]], ReqIds)

\* C26: for each chunk SyncChunkSaveState and the persist notification
\* happen only after an insert attempt of the chunk has succeeded, in the
\* order sync, notification, save_ok increment; a failed attempt triggers
\* none of them; save_ok counts the completed chunks and save_fail the
\* failed attempts.
C26_AckOrdering ==
    /\ [](\A r \in ReqIds : /\ persistMsgs[r] <= syncCalls[r]
                            /\ syncCalls[r] <= insertOk[r]
                            /\ insertOk[r] <= insertAttempts[r]
                            /\ insertOk[r] <= 1)
    /\ [](/\ chunkSaveOk <= SumAdded(persistMsgs, ReqIds)
          /\ chunkSaveOk = Cardinality(SaveCompleted)
          /\ chunkSaveFail = SaveFailedAttempts)
    /\ [][\A q \in Shards :
            (writers[q].pc = "insert" /\ writers'[q].pc = "sleep") =>
                /\ syncCalls' = syncCalls
                /\ persistMsgs' = persistMsgs
                /\ chunkSaveOk' = chunkSaveOk
                /\ chunkSaveFail' = chunkSaveFail + 1]_vars

\* a chunk saved at its second attempt: one sync, one notification, counted
\* once in save_ok, and its first attempt counted in save_fail
C26_Witness ==
    \E r \in ReqIds :
        /\ r \in SaveCompleted
        /\ insertAttempts[r] = 2
        /\ syncCalls[r] = 1 /\ persistMsgs[r] = 1
        /\ chunkSaveOk >= 1 /\ chunkSaveFail >= 1

(***************************************************************************)
(* One tick of the reaper.                                                 *)
(***************************************************************************)
\* the keys of the a.GC calls of the tick, in the order of the calls
GcSeenKeys == [i \in 1 .. Len(gc.seen) |-> gc.seen[i].key]

\* the keys whose a.GC returned stale in the tick
GcStaleKeys == {gc.seen[i].key : i \in {j \in 1 .. Len(gc.seen) : gc.seen[j].stale}}

\* the reaper is past the last key of its list
GcTickOver == gc.pc = "loop" /\ gc.keys = <<>>

\* C27: at each tick the reaper calls GC(chunkMinTs, metricMinTs) exactly once
\* for every key of its snapshot, with chunkMinTs = now - now mod chunkSpan -
\* chunkMaxStale and metricMinTs = now - now mod chunkSpan - metricMaxStale,
\* and removes exactly the keys whose GC returned stale; keys created after
\* the snapshot are neither examined nor removed in that tick.
C27_ReaperTick ==
    /\ [](gc.pc \in {"loop", "gc", "delete"} =>
            /\ GcSeenKeys = SubSeq(gc.snap, 1, Len(gc.seen))
            /\ \A i \in 1 .. Len(gc.seen) :
                  /\ gc.seen[i].chunkMinTs =
                        gc.now - (gc.now % chunkSpan) - chunkMaxStale
                  /\ gc.seen[i].metricMinTs =
                        gc.now - (gc.now % chunkSpan) - metricMaxStale
            /\ gc.gone \subseteq GcStaleKeys
            /\ GcStaleKeys \subseteq
                  gc.gone \cup (IF gc.pc = "delete" THEN {gc.key} ELSE {}))
    /\ [](GcTickOver => /\ GcSeenKeys = gc.snap
                        /\ gc.gone = GcStaleKeys)
    /\ [][\A k \in RegKeys :
            (Metrics[k] # 0 /\ Metrics'[k] = 0) =>
                /\ gc.pc = "delete" /\ gc.key = k
                /\ k \in GcStaleKeys
                /\ \E i \in 1 .. Len(gc.snap) : gc.snap[i] = k]_vars

\* a tick that is over: it removed a key of its snapshot, and a key created
\* after the snapshot is registered and was not examined
C27_Witness ==
    /\ GcTickOver
    /\ gc.gone # {}
    /\ \E k \in RegKeys :
          /\ Metrics[k] # 0
          /\ \A i \in 1 .. Len(gc.snap) : gc.snap[i] # k
          /\ \A i \in 1 .. Len(gc.seen) : gc.seen[i].key # k

(***************************************************************************)
(* Envelope maps with entries the decoders have no case for.               *)
(***************************************************************************)
\* keys no envelope has a field for: "Ex", "Path", ""
ExtraKeys == {<<69, 120>>, <<80, 97, 116, 104>>, <<>>}

\* encoded values: 7, nil, true, "a", 300, [1, "a"], {"k": 1}, "Paths"
ExtraValues ==
    {<<7>>, <<192>>, <<195>>, <<161, 97>>, <<209, 1, 44>>,
     <<146, 1, 161, 97>>, <<129, 161, 107, 1>>, AppendString(<<>>, Field_Paths)}

\* one map entry, encoded
ExtraEntries == {AppendString(<<>>, k) \o v : k \in ExtraKeys, v \in ExtraValues}

\* where the entries go among the envelope's own
ExtraPlaces == {"front", "end", "both"}

\* the encoded map bts with the entry e added at the place
WithExtra(bts, e, place) ==
    CASE place = "front" -> <<bts[1] + 1>> \o e \o Tail(bts)
      [] place = "end"   -> <<bts[1] + 1>> \o Tail(bts) \o e
      [] place = "both"  -> <<bts[1] + 2>> \o e \o Tail(bts) \o e

CallExtraGraphiteTagDelSeries(x, e, place) ==
    \* the first call of the process
    /\ fcall.fn = "none"
    /\ LET plain == GraphiteTagDelSeries_MarshalMsg(x, <<>>)
           bts   == WithExtra(plain, e, place)
       IN  fcall' = [fn |-> "extra", envelope |-> "GraphiteTagDelSeries",
                     x |-> x, e |-> e, place |-> place, bts |-> bts,
                     ret |-> GraphiteTagDelSeries_UnmarshalMsg(
                                ZeroGraphiteTagDelSeries, bts),
                     plain |-> GraphiteTagDelSeries_UnmarshalMsg(
                                ZeroGraphiteTagDelSeries, plain)]
    /\ UNCHANGED <<writeVars, storeVars, regVars, readVars, legacyVars,
                   bootVars, aggVars, semVars, fanVars>>

CallExtraGraphiteTagDelSeriesResp(x, order, e, place) ==
    \* the first call of the process
    /\ fcall.fn = "none"
    /\ LET plain == GraphiteTagDelSeriesResp_MarshalMsg(x, <<>>, order)
           bts   == WithExtra(plain, e, place)
       IN  fcall' = [fn |-> "extra", envelope |-> "GraphiteTagDelSeriesResp",
                     x |-> x, e |-> e, place |-> place, bts |-> bts,
                     ret |-> GraphiteTagDelSeriesResp_UnmarshalMsg(
                                ZeroGraphiteTagDelSeriesResp, bts),
                     plain |-> GraphiteTagDelSeriesResp_UnmarshalMsg(
                                ZeroGraphiteTagDelSeriesResp, plain)]
    /\ UNCHANGED <<writeVars, storeVars, regVars, readVars, legacyVars,
                   bootVars, aggVars, semVars, fanVars>>

CallExtraSeriesPickleItem(x, e, place) ==
    \* the first call of the process
    /\ fcall.fn = "none"
    /\ LET plain == SeriesPickleItem_MarshalMsg(x, <<>>)
           bts   == WithExtra(plain, e, place)
       IN  fcall' = [fn |-> "extra", envelope |-> "SeriesPickleItem",
                     x |-> x, e |-> e, place |-> place, bts |-> bts,
                     ret |-> SeriesPickleItem_UnmarshalMsg(
                                ZeroSeriesPickleItem, bts),
                     plain |-> SeriesPickleItem_UnmarshalMsg(
                                ZeroSeriesPickleItem, plain)]
    /\ UNCHANGED <<writeVars, storeVars, regVars, readVars, legacyVars,
                   bootVars, aggVars, semVars, fanVars>>

NextExtra ==
    \/ \E x \in {y \in TagDels : Len(y.Paths) <= 1} :
          \E e \in ExtraEntries, place \in ExtraPlaces :
              CallExtraGraphiteTagDelSeries(x, e, place)
    \/ \E x \in {y \in Resps : Cardinality(DOMAIN y.Peers) <= 1} :
          \E order \in RangeOrders(x.Peers) :
              \E e \in ExtraEntries, place \in ExtraPlaces :
                  CallExtraGraphiteTagDelSeriesResp(x, order, e, place)
    \/ \E x \in {y \in PickleItems : Len(y.Intervals) <= 1} :
          \E e \in ExtraEntries, place \in ExtraPlaces :
              CallExtraSeriesPickleItem(x, e, place)

ExtraSpec == Init /\ [][NextExtra]_vars

\* C28: decoding an envelope map that carries extra entries with keys the
\* decoder has no field for gives no error and the value that decoding the
\* map without those entries gives, for the tag-delete request, the
\* tag-delete response and the series-metadata entry.
C28_UnknownFieldsSkipped ==
    fcall.fn = "extra" =>
        /\ ~fcall.ret.err
        /\ ~fcall.plain.err
        /\ fcall.ret.z = fcall.plain.z
        /\ fcall.ret.z = fcall.x
        /\ fcall.ret.o = <<>>

\* a tag-delete response with a peer, with the entry "Path": [1, "a"] before
\* and after its own entries, decoded to the response
C28_Witness ==
    /\ fcall.fn = "extra"
    /\ fcall.envelope = "GraphiteTagDelSeriesResp"
    /\ fcall.place = "both"
    /\ fcall.e = <<164, 80, 97, 116, 104, 146, 1, 161, 97>>
    /\ fcall.x.Count = 128 /\ DOMAIN fcall.x.Peers # {}
    /\ fcall.bts[1] = 132
    /\ ~fcall.ret.err /\ fcall.ret.z = fcall.x

(***************************************************************************)
(* InsertChunk of the single-table layout, a statement a step.             *)
(***************************************************************************)
\* the chunks the goroutines bring
SemChunks ==
    {[key |-> SearchKey, t0 |-> Month_sec - 600, span |-> 600],
     [key |-> OtherKey, t0 |-> Month_sec - 300, span |-> 300]}

\* cSession is nil in unit tests
SemInit ==
    /\ InitWrite /\ InitStore /\ InitReg /\ InitRead /\ InitLegacy /\ InitPure
    /\ InitBoot /\ InitAgg /\ InitFan
    /\ \E session \in {"nil", "open"} :
          sem = [cSession |-> session, writeSem |-> 0,
                 call |-> [g \in SemCallers |-> semCallIdle]]

\* the calls that hold a slot: past writeSem <- true, before <-writeSem
SemPast == {g \in SemCallers : sem.call[g].pc \in {"in", "defer"}}

\* InsertChunk is called: pre := time.Now()
SemCall(g, c) ==
    /\ sem.call[g].pc = "idle"
    /\ sem' = [sem EXCEPT !.call[g] =
                  [pc |-> "send", key |-> c.key, t0 |-> c.t0, span |-> c.span,
                   ret |-> "none"]]
    /\ UNCHANGED <<writeVars, storeVars, regVars, readVars, legacyVars,
                   pureVars, bootVars, aggVars, fanVars>>

\* writeSem <- true: the send goes through when the buffer has room
SemAcquire(g) ==
    /\ sem.call[g].pc = "send"
    /\ sem.writeSem < cassandraWriteConcurrency
    /\ sem' = [sem EXCEPT !.writeSem = @ + 1, !.call[g].pc = "in"]
    /\ UNCHANGED <<writeVars, storeVars, regVars, readVars, legacyVars,
                   pureVars, bootVars, aggVars, fanVars>>

\* if cSession == nil { return nil }
SemNilSession(g) ==
    /\ sem.call[g].pc = "in"
    /\ sem.cSession = "nil"
    /\ sem' = [sem EXCEPT !.call[g].pc = "defer", !.call[g].ret = "nil"]
    /\ UNCHANGED <<writeVars, storeVars, regVars, readVars, legacyVars,
                   pureVars, bootVars, aggVars, fanVars>>

\* ret := cSession.Query(query, row_key, t0, data).Exec(); return ret
SemExec(g, ok) ==
    /\ sem.call[g].pc = "in"
    /\ sem.cSession = "open"
    /\ LET c   == sem.call[g]
           put == Upsert(rows, legacyTable, RowKey(c.key, c.t0), c.t0,
                         <<FormatStandardGoTsz, 7>>)
           sto == {x \in stored : ~(x.key = c.key /\ x.table = legacyTable
                                                   /\ x.t0 = c.t0)}
                     \cup {[key |-> c.key, table |-> legacyTable,
                            t0 |-> c.t0, span |-> c.span]}
       IN  IF ok
           THEN rows' = put /\ stored' = sto
           \* a failed Exec may or may not have stored the cell
           ELSE \/ rows' = rows /\ stored' = stored
                \/ rows' = put /\ stored' = sto
    /\ sem' = [sem EXCEPT !.call[g].pc = "defer",
                          !.call[g].ret = IF ok THEN "nil" ELSE errQuery]
    /\ UNCHANGED <<writeVars, regVars, readVars, legacyVars, pureVars,
                   bootVars, aggVars, fanVars>>

\* a deferred function that keeps the slot of a call that failed
SemReleaseOnSuccess(g) ==
    /\ sem.call[g].pc = "defer"
    /\ sem' = [sem EXCEPT
                  !.writeSem = IF sem.call[g].ret = "nil" THEN @ - 1 ELSE @,
                  !.call[g] = semCallIdle]
    /\ UNCHANGED <<writeVars, storeVars, regVars, readVars, legacyVars,
                   pureVars, bootVars, aggVars, fanVars>>

\* the deferred function: <-writeSem, and the call has returned
SemRelease(g) ==
    /\ sem.call[g].pc = "defer"
    /\ sem' = [sem EXCEPT !.writeSem = @ - 1, !.call[g] = semCallIdle]
    /\ UNCHANGED <<writeVars, storeVars, regVars, readVars, legacyVars,
                   pureVars, bootVars, aggVars, fanVars>>

NextSem ==
    \/ \E g \in SemCallers, c \in SemChunks : SemCall(g, c)
    \/ \E g \in SemCallers : SemAcquire(g)
    \/ \E g \in SemCallers : SemNilSession(g)
    \/ \E g \in SemCallers, ok \in BOOLEAN : SemExec(g, ok)
    \/ \E g \in SemCallers : SemRelease(g)

SemSpec == SemInit /\ [][NextSem]_vars

\* C29: at any time at most cassandraWriteConcurrency InsertChunk calls are
\* past the semaphore; a further call stays before it until one of them has
\* finished; every call gives its slot back on every return path (nil
\* session, success, error), so that the slots held are those of the calls
\* in progress past the semaphore, and none when no call is in progress.
C29_WriteSemaphore ==
    /\ [](/\ Cardinality(SemPast) <= cassandraWriteConcurrency
          /\ sem.writeSem = Cardinality(SemPast)
          /\ (\A g \in SemCallers : sem.call[g].pc = "idle")
                => sem.writeSem = 0)
    /\ [][\A g \in SemCallers :
            (g \notin SemPast /\ g \in SemPast') =>
                Cardinality(SemPast) < cassandraWriteConcurrency]_vars
    /\ [][\A g \in SemCallers :
            (sem.call[g].pc = "defer" /\ sem'.call[g].pc = "idle") =>
                /\ sem.call[g].ret \in {"nil", errQuery}
                /\ sem'.writeSem = sem.writeSem - 1]_vars

\* two calls hold the slots, one of them returning an error, and the third
\* call waits at the semaphore
C29_Witness ==
    /\ Cardinality(SemPast) = cassandraWriteConcurrency
    /\ \E g \in SemCallers : sem.call[g].pc = "send"
    /\ \E g \in SemCallers : sem.call[g].pc = "defer"
                                /\ sem.call[g].ret = errQuery

(***************************************************************************)
(* The hand-off of a read result.                                          *)
(***************************************************************************)
\* C30: for every request a read worker dequeues it sends one result on the
\* request's out channel, and only one; the send finds room in the buffer
\* and an open channel, also when SearchTable has returned on the
\* cancellation of its context; so the worker can always take its step and
\* is back at the queue after it.
C30_ResultHandOff ==
    /\ [](\A r \in ReadWorkers :
            /\ readers[r].pc # "panic"
            /\ readers[r].pc = "got" =>
                  /\ out[readers[r].s] = <<>>
                  /\ ~srch[readers[r].s].closed
                  /\ rq[readers[r].s] = "dequeued"
                  /\ ENABLED ReadProcess(r))
    /\ [](\A s \in Searchers :
            /\ Len(out[s]) <= ResultsCap
            /\ out[s] # <<>> => rq[s] = "answered"
            /\ srch[s].closed => rq[s] = "answered" /\ out[s] = <<>>)
    /\ [][\A r \in ReadWorkers :
            readers[r].pc = "got" /\ readers'[r] # readers[r] =>
                /\ readers'[r] = readerIdle
                /\ out' = [out EXCEPT ![readers[r].s] = <<Answered(readers[r].s)>>]
                /\ rq[readers[r].s] = "dequeued"
                /\ rq'[readers[r].s] = "answered"]_vars

\* a Search returned on its cancellation, the worker's answer to its request
\* lies in the channel nobody reads, and the worker has since served another
\* Search, which took its result and closed its channel
C30_Witness ==
    \E s \in Searchers, t \in Searchers :
        /\ s # t
        /\ srch[s].pc = "ret" /\ ctx[s] # "live"
        /\ rq[s] = "answered" /\ Len(out[s]) = 1
        /\ rq[t] = "answered" /\ srch[t].closed /\ queries[t] = 1
        /\ \A r \in ReadWorkers : readers[r].pc = "idle"

(***************************************************************************)
(* The month loop over 32-bit unsigned values.  A uint32 v is the pair of  *)
(* v div 512 and v mod 512: Month_sec is a multiple of 512, so a value's   *)
(* month depends on the first part only, and the months are counted in     *)
(* units of 512 seconds, modulo 2^32 / 512.                                *)
(***************************************************************************)
U32Unit == 2^9
\* Month_sec in units
MonthQ == Month_sec \div U32Unit
\* 2^32 in units
WrapQ == 2^23

\* passes of the loop that are followed
MaxLoopIters == 8

\* x - 1, for x > 0
U32Dec(x) == IF x.r > 0 THEN [q |-> x.q, r |-> x.r - 1]
             ELSE [q |-> x.q - 1, r |-> U32Unit - 1]

U32Less(x, y) == x.q < y.q \/ (x.q = y.q /\ x.r < y.r)

\* x - (x % Month_sec), in units
U32Month(x) == x.q - (x.q % MonthQ)

\* month += Month_sec, in units
U32NextMonth(month) == (month + MonthQ) % WrapQ

\* the last month that begins below 2^32, in units
LastMonthQ == (WrapQ \div MonthQ) * MonthQ

\* start and end of the requests: in the first months, and in the last ones
\* below 2^32
LoopPoints ==
    {[q |-> q, r |-> r] :
        q \in {0, MonthQ - 1, MonthQ, 3 * MonthQ + 7,
               LastMonthQ - 2 * MonthQ, LastMonthQ - 1, LastMonthQ,
               LastMonthQ + 1, WrapQ - 1},
        r \in {0, 1, U32Unit - 1}}

\* start_month, end_month, and the loop's init statement
CallMonthLoop(start, end) ==
    \* the first call of the process
    /\ fcall.fn = "none"
    /\ U32Less(start, end)
    /\ fcall' = [fn |-> "monthLoop", start |-> start, end |-> end,
                 start_month |-> U32Month(start),
                 end_month |-> U32Month(U32Dec(end)),
                 month |-> U32Month(start), iters |-> 0,
                 wrapped |-> FALSE, done |-> FALSE]
    /\ UNCHANGED <<writeVars, storeVars, regVars, readVars, legacyVars,
                   bootVars, aggVars, semVars, fanVars>>

\* one test of month <= end_month, with the body and month += Month_sec, or
\* the end of the loop
MonthLoopStep ==
    /\ fcall.fn = "monthLoop"
    /\ ~fcall.done
    /\ fcall.iters < MaxLoopIters
    /\ fcall' = IF fcall.month <= fcall.end_month
                THEN [fcall EXCEPT !.iters = @ + 1,
                                   !.month = U32NextMonth(fcall.month),
                                   !.wrapped = @ \/ fcall.month + MonthQ >= WrapQ]
                ELSE [fcall EXCEPT !.done = TRUE]
    /\ UNCHANGED <<writeVars, storeVars, regVars, readVars, legacyVars,
                   bootVars, aggVars, semVars, fanVars>>

NextLoop ==
    \/ \E start \in LoopPoints, end \in LoopPoints : CallMonthLoop(start, end)
    \/ MonthLoopStep

LoopSpec == Init /\ [][NextLoop]_vars

\* C31: for 32-bit unsigned start < end, also with end within a month of
\* 2^32, the loop over the months ends after
\* (end_month - start_month) / Month_sec + 1 passes, and month never wraps
\* around modulo 2^32.
C31_LoopTermination ==
    fcall.fn = "monthLoop" =>
        LET passes == (fcall.end_month - fcall.start_month) \div MonthQ + 1
        IN  /\ fcall.iters <= passes
            /\ ~fcall.wrapped
            /\ fcall.done => fcall.iters = passes

(***************************************************************************)
(* The shards, one of them with a chunk whose insert keeps failing.        *)
(***************************************************************************)
\* the metrics of one key may be of a retention class that has no table
IsoTTLs(k) == IF k = [org |-> 1, key |-> <<1, 2>>]
              THEN {WriteTTL, UnknownTTL} ELSE {WriteTTL}

NextIso ==
    \/ \E k \in Keys : \E ttl \in IsoTTLs(k) : AddTTL(k, ttl)
    \/ \E q \in Shards : WriteDequeue(q)
    \/ \E q \in Shards : WriteInsert(q)
    \/ \E q \in Shards : WriteWake(q)

IsoSpec == Init /\ [][NextIso]_vars /\ WriteFairness

\* the insert of the request has no table to go to: it fails at every pass
NoTable(cwr) == getTable(cwr.TTL).err # "nil"

\* the worker of shard q is in the retry loop of such a request
IsoStuck(q) == writers[q].pc # "idle" /\ NoTable(writers[q].cwr)

\* request r is in shard q, with no such request before it
IsoClear(r, q) ==
    /\ ~IsoStuck(q)
    /\ \/ writers[q].pc # "idle" /\ ReqOf(writers[q].cwr) = r
       \/ \E i \in 1 .. Len(writeQueues[q]) :
             /\ ReqOf(writeQueues[q][i]) = r
             /\ \A j \in 1 .. i : ~NoTable(writeQueues[q][j])

\* C32: a chunk whose insert keeps failing holds up only the requests behind
\* it in its own shard: whatever the other workers do, a worker with a
\* request in its channel can dequeue it, a worker in its loop can make its
\* next pass, an Add to a shard with room returns, a step of one shard
\* leaves the other shards as they are, and again and again every request
\* with no failing chunk before it in its shard has been completed.
C32_ShardIsolation ==
    /\ [](\A q \in Shards :
            /\ (writers[q].pc = "idle" /\ writeQueues[q] # <<>>)
                  => ENABLED WriteDequeue(q)
            /\ writers[q].pc = "insert" => ENABLED WriteInsert(q)
            /\ (writers[q].pc = "sleep" /\ ~IsoStuck(q))
                  => ENABLED WriteWake(q))
    /\ [](\A k \in Keys :
            (/\ SumAdded(added, Keys) < MaxChunks
             /\ Len(writeQueues[AddWhich(MkCwr(k, 1))]) < WriteQueueSize)
                => ENABLED AddTTL(k, WriteTTL))
    /\ [][\A q \in Shards :
            writers'[q] # writers[q] =>
                \A o \in Shards \ {q} : /\ writers'[o] = writers[o]
                                        /\ writeQueues'[o] = writeQueues[o]]_vars
    /\ [](\A r \in ReqIds :
            (/\ insertAttempts[r] > 0
             /\ \A q \in Shards : writers[q].pc = "idle"
                                     \/ ReqOf(writers[q].cwr) # r)
                => (insertOk[r] = 1 /\ syncCalls[r] = 1))
    /\ []<>(\A r \in ReqIds, q \in Shards : ~IsoClear(r, q))

\* the worker of one shard is at its third attempt of a chunk that has no
\* table, a request waits behind it, and the worker of the other shard has
\* completed a request
C32_Witness ==
    \E q \in Shards, o \in Shards :
        /\ q # o
        /\ IsoStuck(q) /\ insertAttempts[ReqOf(writers[q].cwr)] >= 3
        /\ writeQueues[q] # <<>>
        /\ writers[o].pc = "idle" /\ writeQueues[o] = <<>>
        /\ \E r \in ReqIds : AddWhich(MkCwr(r[1], r[2])) = o /\ insertOk[r] = 1

(***************************************************************************)
(* searchCassandra: the query goroutines, the wait group, the results      *)
(* channel and the collector, a statement a step.                          *)
(***************************************************************************)
\* the place of a query in the order of the query(...) calls
FanRank(query) == IF query.q = "last" THEN -1 ELSE query.month

\* searchCassandra(key, start, end) up to the first query(...) call
FanCall(key, start, end) ==
    /\ fan.pc \in {"idle", "sorted"}
    /\ start <= end
    /\ fan' = [fanIdle EXCEPT !.pc = "issue", !.key = key, !.start = start,
                              !.end = end,
                              !.queries = LegacyQueries(start, end)]
    /\ UNCHANGED <<writeVars, storeVars, regVars, readVars, legacyVars,
                   pureVars, bootVars, aggVars, semVars>>

\* query(...): wg.Add(1) and the go statement, for the next query
FanQuery ==
    /\ fan.pc = "issue"
    /\ fan.issued # fan.queries
    /\ LET todo  == fan.queries \ fan.issued
           query == CHOOSE x \in todo : \A y \in todo : FanRank(x) <= FanRank(y)
       IN  fan' = [fan EXCEPT !.wg = @ + 1,
                              !.issued = @ \cup {query},
                              !.sending = @ \cup {query}]
    /\ UNCHANGED <<writeVars, storeVars, regVars, readVars, legacyVars,
                   pureVars, bootVars, aggVars, semVars>>

\* go func() { wg.Wait(); close(results) }(), and the collector reaches its
\* range loop
FanStartCloser ==
    /\ fan.pc = "issue"
    /\ fan.issued = fan.queries
    /\ fan' = [fan EXCEPT !.pc = "collect", !.closer = "waiting"]
    /\ UNCHANGED <<writeVars, storeVars, regVars, readVars, legacyVars,
                   pureVars, bootVars, aggVars, semVars>>

\* a query goroutine: results <- outcome{...}. The channel has no buffer:
\* the send goes through when the collector is in its range loop, and it
\* panics when the channel is closed
FanSend(query) ==
    /\ query \in fan.sending
    /\ IF fan.closed
       THEN fan' = [fan EXCEPT !.sending = @ \ {query}, !.panic = TRUE]
       ELSE /\ fan.pc = "collect"
            /\ fan' = [fan EXCEPT
                  !.sending = @ \ {query},
                  !.sent = @ \cup {query},
                  !.outcomes = Append(@, [month |-> query.month,
                                          sortKey |-> query.sortKey,
                                          i |-> LegacyResult(fan.key, query,
                                                    fan.start, fan.end)])]
    /\ UNCHANGED <<writeVars, storeVars, regVars, readVars, legacyVars,
                   pureVars, bootVars, aggVars, semVars>>

\* a query goroutine: wg.Done()
FanDone(query) ==
    /\ query \in fan.sent
    /\ fan' = [fan EXCEPT !.sent = @ \ {query}, !.wg = @ - 1]
    /\ UNCHANGED <<writeVars, storeVars, regVars, readVars, legacyVars,
                   pureVars, bootVars, aggVars, semVars>>

\* a closer that does not wait for the group
FanCloseNoWait ==
    /\ fan.closer = "waiting"
    /\ fan' = [fan EXCEPT !.closer = "closed", !.closed = TRUE,
                          !.closes = @ + 1]
    /\ UNCHANGED <<writeVars, storeVars, regVars, readVars, legacyVars,
                   pureVars, bootVars, aggVars, semVars>>

\* the closer: wg.Wait() returns with the counter at zero; close(results)
FanClose ==
    /\ fan.closer = "waiting"
    /\ fan.wg = 0
    /\ fan' = [fan EXCEPT !.closer = "closed", !.closed = TRUE,
                          !.closes = @ + 1]
    /\ UNCHANGED <<writeVars, storeVars, regVars, readVars, legacyVars,
                   pureVars, bootVars, aggVars, semVars>>

\* the range loop ends on the closed channel; sort.Sort(asc(outcomes))
FanSort ==
    /\ fan.pc = "collect"
    /\ fan.closed
    /\ fan' = [fan EXCEPT !.pc = "sorted",
                          !.outcomes = SortOutcomes(fan.outcomes)]
    /\ UNCHANGED <<writeVars, storeVars, regVars, readVars, legacyVars,
                   pureVars, bootVars, aggVars, semVars>>

\* the queries of the calls
FanQueries ==
    UNION {LegacyQueries(a, b) : a \in SearchPoints, b \in SearchPoints}

NextFan ==
    \/ \E start \in SearchPoints, end \in SearchPoints :
          FanCall(SearchKey, start, end)
    \/ FanQuery
    \/ FanStartCloser
    \/ \E query \in FanQueries : FanSend(query)
    \/ \E query \in FanQueries : FanDone(query)
    \/ FanClose
    \/ FanSort

\* every goroutine and the collector get to run
FanFairness ==
    /\ WF_vars(FanQuery) /\ WF_vars(FanStartCloser)
    /\ WF_vars(FanClose) /\ WF_vars(FanSort)
    /\ \A query \in FanQueries : /\ WF_vars(FanSend(query))
                                  /\ WF_vars(FanDone(query))

FanSpec == Init /\ [][NextFan]_vars /\ FanFairness

\* C33: in searchCassandra every query goroutine delivers one outcome and
\* only one, the results channel is closed once and only after all
\* outcomes were sent, the collector receives as many outcomes as queries
\* were issued, and the function reaches the sort step, with no send on a
\* closed channel, in whatever order the goroutines complete.
C33_FanOut ==
    /\ [](/\ ~fan.panic
          /\ fan.closes <= 1
          /\ fan.wg = Cardinality(fan.sending) + Cardinality(fan.sent)
          /\ Len(fan.outcomes) = Cardinality(fan.issued \ fan.sending)
          /\ \A i, j \in 1 .. Len(fan.outcomes) :
                i # j => <<fan.outcomes[i].month, fan.outcomes[i].sortKey>>
                            # <<fan.outcomes[j].month, fan.outcomes[j].sortKey>>
          /\ fan.closed =>
                /\ fan.issued = fan.queries
                /\ fan.sending = {} /\ fan.sent = {}
                /\ Len(fan.outcomes) = Cardinality(fan.queries)
          /\ fan.pc = "sorted" =>
                /\ fan.closed
                /\ Len(fan.outcomes) = Cardinality(fan.queries))
    /\ (fan.pc = "issue") ~> (fan.pc = "sorted")

\* a search over three months is at its sort step with the four outcomes,
\* the one of the last month's query received first
C33_Witness ==
    /\ fan.pc = "sorted"
    /\ Cardinality(fan.queries) = 4
    /\ Len(fan.outcomes) = 4
    /\ fan.closes = 1 /\ fan.wg = 0
    /\ fan.outcomes[4].month = 2 * Month_sec

(***************************************************************************)
(* The thresholds of a reaper tick over 32-bit unsigned values.  A uint32  *)
(* is the pair of its two 16-bit halves.                                   *)
(***************************************************************************)
Half == 2^16

H32(hi, lo) == [hi |-> hi, lo |-> lo]

\* a - b modulo 2^32
H32Sub(a, b) ==
    LET borrow == IF a.lo < b.lo THEN 1 ELSE 0
    IN  [hi |-> (a.hi - b.hi - borrow + 2 * Half) % Half,
         lo |-> (a.lo - b.lo + Half) % Half]

\* a % s, for a divisor s below 2^15
H32Mod(a, s) == ((a.hi % s) * (Half % s) + (a.lo % s)) % s

H32Less(a, b) == a.hi < b.hi \/ (a.hi = b.hi /\ a.lo < b.lo)

\* now - (now % chunkSpan) - uint32(maxStale)
GcThreshold(now, span, maxStale) ==
    H32Sub(H32Sub(now, H32(0, H32Mod(now, span))), maxStale)

\* unix times: 0, 10000, a time of the year 2023, the last second of uint32
ThresholdNows == {H32(0, 0), H32(0, 10000), H32(25940, 13568), H32(Half - 1, Half - 1)}

ThresholdSpans == {1, 100, 600}

\* staleness settings: 0, 1000, 5000, 20000, 62 years, the largest uint32
ThresholdStales == {H32(0, 0), H32(0, 1000), H32(0, 5000), H32(0, 20000),
                    H32(30000, 0), H32(Half - 1, Half - 1)}

\* the thresholds of a tick at now, and a.GC's result for a metric whose
\* last write was at now
CallGcThresholds(now, span, chunkMaxStale_, metricMaxStale_) ==
    \* the first call of the process
    /\ fcall.fn = "none"
    /\ LET chunkMinTs  == GcThreshold(now, span, chunkMaxStale_)
           metricMinTs == GcThreshold(now, span, metricMaxStale_)
       IN  fcall' = [fn |-> "thresholds", now |-> now, chunkSpan |-> span,
                     chunkMaxStale |-> chunkMaxStale_,
                     metricMaxStale |-> metricMaxStale_,
                     chunkMinTs |-> chunkMinTs, metricMinTs |-> metricMinTs,
                     lastWrite |-> now,
                     stale |-> H32Less(now, metricMinTs)]
    /\ UNCHANGED <<writeVars, storeVars, regVars, readVars, legacyVars,
                   bootVars, aggVars, semVars, fanVars>>

NextThreshold ==
    \E now \in ThresholdNows, span \in ThresholdSpans,
       cms \in ThresholdStales, mms \in ThresholdStales :
        CallGcThresholds(now, span, cms, mms)

ThresholdSpec == Init /\ [][NextThreshold]_vars

\* C34: the 32-bit unsigned chunkMinTs and metricMinTs of a tick never wrap
\* around: they are at most now, for every now, chunkSpan, chunkMaxStale and
\* metricMaxStale, and a metric written at now is not judged stale.
C34_ThresholdsNoWrap ==
    fcall.fn = "thresholds" =>
        /\ ~H32Less(fcall.now, fcall.chunkMinTs)
        /\ ~H32Less(fcall.now, fcall.metricMinTs)
        /\ ~fcall.stale

=============================================================================
